---- MODULE Spec2Model ----
(***************************************************************************)
(* Multi-tenant isolation and context-caching core of the SQL execution    *)
(* service: the Table Namespacer (server.py), the Context Store            *)
(* (context_manager.py) and the key-value store adapter (redis_client.py). *)
(*                                                                         *)
(* Texts (SQL statements, table names, project IDs) are TLA+ strings; a    *)
(* character is a string of length one.                                    *)
(***************************************************************************)
EXTENDS Integers, Sequences, FiniteSets, TLC

VARIABLES
    \* ---- Table Namespacer (pure functions applied to drawn inputs)
    nsKind,        \* "rewrite" | "prefix" | "naming" | "none": which inputs were drawn
    nsQuery,       \* the inbound statement text
    nsPid,         \* the project ID
    nsTable,       \* a table name
    nsRewritten,   \* rewrite_query_with_prefix(nsQuery, nsPid)
    nsPrefixed,    \* add_table_prefix(nsTable, nsPid)
    nsTwice,       \* add_table_prefix(nsPrefixed, nsPid)
    nsDisplay,     \* remove_table_prefix(nsPrefixed, nsPid)
    nsDone,        \* the set of namespacer operations applied so far
    nsTables,      \* the physical tables of the SQL engine
    nsListing,     \* the tables schema discovery listed for nsPid
    \* ---- key-value backend and its adapter (redis_client.py)
    up,            \* the backend answers commands
    rcInstance,    \* RedisClient._instance is not None
    rcInitialized, \* RedisClient._initialized
    ctxRedis,      \* ContextManager.redis is not None (fetched once, in __init__)
    kv,            \* the keys of the store and their values
    exp,           \* the expiry deadline of every key that has one
    now,           \* the clock, in seconds
    \* ---- the last call and what it returned
    ret,           \* the value the last call returned to its caller
    last,          \* the last call: operation, arguments, what happened to it
    calls,         \* per caller: the call in flight, its position and its locals
    \* ---- history (not program state)
    ticks,         \* clock steps taken
    nextId,        \* intents pushed so far (the next fresh uuid)
    nextMsg,       \* messages handed to save_ai_message so far
    intentLog,     \* per project: the intents pushed by the successful saves since the
                   \* last failed save, clear, delete or expiry of its list
    msgLog,        \* per session key: the messages appended since it was last absent
    ddlSince       \* per project: a successful DDL was recorded since the last schema write

nsVars == <<nsKind, nsQuery, nsPid, nsTable, nsRewritten, nsPrefixed, nsTwice,
            nsDisplay, nsDone, nsTables, nsListing>>

adapterVars == <<up, rcInstance, rcInitialized, ctxRedis>>

storeVars == <<kv, exp, now>>

callVars == <<ret, last, calls>>

historyVars == <<ticks, nextId, nextMsg, intentLog, msgLog, ddlSince>>

vars == <<nsVars, adapterVars, storeVars, callVars, historyVars>>

(***************************************************************************)
(* Characters and Python string primitives                                 *)
(***************************************************************************)
UpperLetters == "ABCDEFGHIJKLMNOPQRSTUVWXYZ"
LowerLetters == "abcdefghijklmnopqrstuvwxyz"
DigitChars == "0123456789"

Ch(s, i) == SubSeq(s, i, i)

CharsOf(s) == { Ch(s, i) : i \in 1..Len(s) }

\* [a-zA-Z0-9_], which is also \w on the ASCII texts modelled
WordChars == CharsOf(UpperLetters) \cup CharsOf(LowerLetters) \cup CharsOf(DigitChars) \cup {"_"}

\* \s of the regular expressions, and what str.strip() strips
SpaceChars == {" ", "\n", "\t"}

IsWordChar(c) == c \in WordChars

IsSpaceChar(c) == c \in SpaceChars

LowerOf == [c \in CharsOf(UpperLetters) |->
              Ch(LowerLetters, CHOOSE i \in 1..26 : Ch(UpperLetters, i) = c)]

UpperOf == [c \in CharsOf(LowerLetters) |->
              Ch(UpperLetters, CHOOSE i \in 1..26 : Ch(LowerLetters, i) = c)]

ToLowerChar(c) == IF c \in DOMAIN LowerOf THEN LowerOf[c] ELSE c

ToUpperChar(c) == IF c \in DOMAIN UpperOf THEN UpperOf[c] ELSE c

RECURSIVE ToUpper(_)
\* str.upper()
ToUpper(s) == IF s = "" THEN "" ELSE ToUpperChar(Head(s)) \o ToUpper(Tail(s))

\* str.startswith(p)
StartsWith(s, p) == Len(s) >= Len(p) /\ SubSeq(s, 1, Len(p)) = p

\* the text at position i equals w, ignoring case (re.IGNORECASE)
EqualsIgnoreCaseAt(s, i, w) ==
    /\ i + Len(w) - 1 <= Len(s)
    /\ \A k \in 1..Len(w) : ToLowerChar(Ch(s, i + k - 1)) = ToLowerChar(Ch(w, k))

RECURSIVE SkipSpaces(_, _)
\* the first position >= i that holds no whitespace character (greedy \s+)
SkipSpaces(s, i) ==
    IF i <= Len(s) /\ IsSpaceChar(Ch(s, i)) THEN SkipSpaces(s, i + 1) ELSE i

RECURSIVE SkipWord(_, _)
\* the first position >= i that holds no word character (greedy [a-zA-Z0-9_]+)
SkipWord(s, i) ==
    IF i <= Len(s) /\ IsWordChar(Ch(s, i)) THEN SkipWord(s, i + 1) ELSE i

RECURSIVE Strip(_)
RECURSIVE StripLeft(_)
StripLeft(s) == IF s # "" /\ IsSpaceChar(Head(s)) THEN StripLeft(Tail(s)) ELSE s

\* str.strip()
Strip(s) ==
    LET l == StripLeft(s)
    IN  IF l # "" /\ IsSpaceChar(Ch(l, Len(l))) THEN Strip(SubSeq(l, 1, Len(l) - 1)) ELSE l

RECURSIVE RemoveDashes(_)
\* str.replace('-', '')
RemoveDashes(s) ==
    IF s = "" THEN ""
    ELSE (IF Head(s) = "-" THEN "" ELSE Head(s)) \o RemoveDashes(Tail(s))

(***************************************************************************)
(* Table Namespacer                                                        *)
(***************************************************************************)
ShortIdLen == 8

\* the five patterns KEYWORD\s+([a-zA-Z0-9_]+) of extract_tables_from_query
TableKeywords == {"FROM", "JOIN", "INTO", "UPDATE", "TABLE"}

\* the position after a match of kw\s+([a-zA-Z0-9_]+) that starts at i, or 0
MatchEnd(kw, s, i) ==
    IF ~EqualsIgnoreCaseAt(s, i, kw) THEN 0
    ELSE LET a == i + Len(kw)
             b == SkipSpaces(s, a)
             c == SkipWord(s, b)
         IN  IF b > a /\ c > b THEN c ELSE 0

\* the group captured by the match that starts at i
MatchGroup(kw, s, i) ==
    LET b == SkipSpaces(s, i + Len(kw))
    IN  SubSeq(s, b, SkipWord(s, b) - 1)

RECURSIVE FindAll(_, _, _)
\* re.findall(kw\s+([a-zA-Z0-9_]+), s, re.IGNORECASE) from position i on:
\* leftmost matches, the search resuming where the last match ended
FindAll(kw, s, i) ==
    IF i > Len(s) THEN {}
    ELSE LET e == MatchEnd(kw, s, i)
         IN  IF e = 0 THEN FindAll(kw, s, i + 1)
             ELSE {MatchGroup(kw, s, i)} \cup FindAll(kw, s, e)

extract_tables_from_query(query) ==
    UNION { FindAll(kw, query, 1) : kw \in TableKeywords }

get_table_prefix(project_id) ==
    LET stripped == RemoveDashes(project_id)
        short_id == SubSeq(stripped, 1, IF Len(stripped) < ShortIdLen
                                        THEN Len(stripped) ELSE ShortIdLen)
    IN  "proj_" \o short_id \o "_"

add_table_prefix_always(table_name, project_id) ==
    get_table_prefix(project_id) \o table_name

add_table_prefix(table_name, project_id) ==
    LET prefix == get_table_prefix(project_id)
    IN  IF StartsWith(table_name, prefix) THEN table_name ELSE prefix \o table_name

remove_table_prefix_short(prefixed_name, project_id) ==
    LET prefix == get_table_prefix(project_id)
    IN  IF StartsWith(prefixed_name, prefix)
        THEN SubSeq(prefixed_name, Len(prefix), Len(prefixed_name))
        ELSE prefixed_name

remove_table_prefix(prefixed_name, project_id) ==
    LET prefix == get_table_prefix(project_id)
    IN  IF StartsWith(prefixed_name, prefix)
        THEN SubSeq(prefixed_name, Len(prefix) + 1, Len(prefixed_name))
        ELSE prefixed_name

\* \bname\b matches at i, ignoring case (name is a non-empty run of word characters)
WordMatchAt(name, s, i) ==
    /\ EqualsIgnoreCaseAt(s, i, name)
    /\ (i = 1 \/ ~IsWordChar(Ch(s, i - 1)))
    /\ (i + Len(name) > Len(s) \/ ~IsWordChar(Ch(s, i + Len(name))))

RECURSIVE SubWord(_, _, _, _)
\* re.sub(r'\b' + re.escape(name) + r'\b', repl, s, flags=re.IGNORECASE) from i on
SubWord(name, repl, s, i) ==
    IF i > Len(s) THEN ""
    ELSE IF WordMatchAt(name, s, i) THEN repl \o SubWord(name, repl, s, i + Len(name))
    ELSE Ch(s, i) \o SubWord(name, repl, s, i + 1)

\* the orders in which the loop can meet the members of the Python set `tables`
\* (string hashing is seeded per process, so the order is not fixed)
IterationOrders(tables) ==
    { o \in [1..Cardinality(tables) -> tables] :
        \A i, j \in 1..Cardinality(tables) : i # j => o[i] # o[j] }

RECURSIVE RewriteLoop(_, _, _, _)
\* the for loop of rewrite_query_with_prefix over table_names[k..]
RewriteLoop(rewritten_query, order, k, project_id) ==
    IF k > Len(order) THEN rewritten_query
    ELSE LET table_name == order[k]
         IN  IF StartsWith(table_name, "proj_")
             THEN RewriteLoop(rewritten_query, order, k + 1, project_id)
             ELSE RewriteLoop(SubWord(table_name, add_table_prefix(table_name, project_id),
                                      rewritten_query, 1),
                              order, k + 1, project_id)

rewrite_query_with_prefix(query, project_id, order) ==
    IF query = "" \/ project_id = "" THEN query
    ELSE RewriteLoop(query, order, 1, project_id)

\* is_ddl_query
DdlKeywords == {"CREATE TABLE", "CREATE VIEW", "CREATE INDEX", "ALTER TABLE", "ALTER VIEW",
                "DROP TABLE", "DROP VIEW", "DROP INDEX", "RENAME TABLE", "TRUNCATE TABLE"}

is_ddl_query(query) ==
    IF query = "" THEN FALSE
    ELSE LET query_upper == ToUpper(Strip(query))
         IN  \E keyword \in DdlKeywords : StartsWith(query_upper, keyword)

RECURSIVE ToLower(_)
\* str.lower()
ToLower(s) == IF s = "" THEN "" ELSE ToLowerChar(Head(s)) \o ToLower(Tail(s))

RECURSIVE LastDot(_, _)
\* the position of the last '.' of s at or before i, or 0
LastDot(s, i) == IF i < 1 THEN 0 ELSE IF Ch(s, i) = "." THEN i ELSE LastDot(s, i - 1)

\* os.path.splitext(filename)[0] of a file name without directories: the
\* name up to its last dot, leading dots not counting as an extension
SplitextRoot(filename) ==
    LET d == LastDot(filename, Len(filename))
    IN  IF d > 1 /\ \E i \in 1..(d - 1) : Ch(filename, i) # "."
        THEN SubSeq(filename, 1, d - 1)
        ELSE filename

RECURSIVE CleanName(_)
\* re.sub(r'[^a-zA-Z0-9_]', '_', s)
CleanName(s) ==
    IF s = "" THEN ""
    ELSE (IF IsWordChar(Head(s)) THEN Head(s) ELSE "_") \o CleanName(Tail(s))

\* upload_csv: the physical table an uploaded file is loaded into
upload_table_name(filename, project_id) ==
    LET base_table_name == CleanName(ToLower(SplitextRoot(filename)))
    IN  add_table_prefix(base_table_name, project_id)

\* discover_schema: the engine's tables that start with the project's prefix,
\* each listed with its display name and its actual name
discover_tables(all_table_names, project_id) ==
    LET prefix == get_table_prefix(project_id)
        table_names == { t \in all_table_names : StartsWith(t, prefix) }
    IN  { [name |-> remove_table_prefix(t, project_id), actualName |-> t] :
            t \in table_names }

(***************************************************************************)
(* Inputs of the namespacer                                                *)
(***************************************************************************)
MaxQueryTokens == 3
MaxNameParts == 2

ProjectIds == {"a1b2c3d4-e5f6", "a1b2-c3d4e5", "deadbeef-0001", "ab", "a_b-c"}

QueryTokens == {"FROM ", "join ", "orders", "Orders", "proj_a1b2c3d4_orders",
                "proj_deadbeef_orders", " ", "x", "'"}

NameParts == {"proj_", "a1b2c3d4_", "orders", "ab_", "proj_deadbeef_", "t"}

RECURSIVE Concat(_)
Concat(parts) == IF parts = <<>> THEN "" ELSE Head(parts) \o Concat(Tail(parts))

SeqsUpTo(S, n) == UNION { [1..k -> S] : k \in 0..n }

\* statements of the documentation, the tests and the routes' callers
CuratedQueries ==
    {"SELECT * FROM orders",
     "SELECT a, b FROM orders WHERE customer = 'orders'",
     "SELECT * FROM proj_deadbeef_orders",
     "select o.id from Orders o join customers c on o.cid = c.id",
     "INSERT INTO orders SELECT * FROM orders_archive",
     "UPDATE orders SET total = 0",
     "CREATE TABLE IF NOT EXISTS orders (id INT)",
     "DROP TABLE orders",
     "SELECT last_update FROM orders",
     "SELECT * FROM mysql.sales.orders"}

Queries == CuratedQueries \cup { Concat(ts) : ts \in SeqsUpTo(QueryTokens, MaxQueryTokens) }

TableNames == { Concat(ps) : ps \in SeqsUpTo(NameParts, MaxNameParts) }

\* table names a user gives a file or writes in a statement
SimpleNames == (TableNames \ {""}) \cup {"Orders", "sales_2024"}

\* what the engine holds before the project uploads anything
ExistingTables == {{}, {"proj_deadbeef_orders"}}

(***************************************************************************)
(* Context Store: configuration (context_manager.py)                       *)
(***************************************************************************)
SCHEMA_TTL == 3600
AI_CONTEXT_TTL == 604800
QUERY_INTENTS_TTL == 2592000
MAX_QUERY_INTENTS == 50
MAX_AI_MESSAGES == 100
MAX_AI_SESSIONS == 10

(***************************************************************************)
(* Python values as the callers see them                                   *)
(***************************************************************************)
\* an optional value of a JSON document: <<>> is null
Null == <<>>

Some(x) == <<x>>

PyNone == [kind |-> "none"]

PyBool(b) == [kind |-> "bool", v |-> b]

PyDict(d) == [kind |-> "dict", v |-> d]

PyList(l) == [kind |-> "list", v |-> l]

\* an exception that reached the caller
PyRaised(e) == [kind |-> "raised", v |-> e]

\* bool(x) of a value a read returned
Truthy(r) ==
    \/ r.kind = "bool" /\ r.v
    \/ r.kind = "dict" /\ DOMAIN r.v # {}
    \/ r.kind = "list" /\ r.v # <<>>

\* json.dumps / json.loads of a JSON value
JsonDumps(value) == <<"json", value>>

JsonLoads(text) == text[2]

EmptyMap == [k \in {} |-> 0]

Restrict(f, S) == [k \in S |-> f[k]]

Put(f, k, v) == [x \in DOMAIN f \cup {k} |-> IF x = k THEN v ELSE f[x]]

\* dict.update: the fields of updates overwrite, the others are kept
DictUpdate(d, updates) ==
    [k \in DOMAIN d \cup DOMAIN updates |-> IF k \in DOMAIN updates THEN updates[k] ELSE d[k]]

\* the dict without the keys in ks
DictWithout(d, ks) == Restrict(d, DOMAIN d \ ks)

Min(a, b) == IF a < b THEN a ELSE b

Max(a, b) == IF a > b THEN a ELSE b

\* l[-n:] for n > 0
LastN(l, n) == SubSeq(l, Max(1, Len(l) - n + 1), Len(l))

RECURSIVE Reverse(_)
Reverse(l) == IF l = <<>> THEN <<>> ELSE Append(Reverse(Tail(l)), Head(l))

(***************************************************************************)
(* Keys                                                                    *)
(***************************************************************************)
MetadataKey(project_id) == "project:" \o project_id \o ":metadata"

SchemaKey(project_id) == "project:" \o project_id \o ":schema"

SessionKey(project_id, session_id) ==
    "project:" \o project_id \o ":ai:session:" \o session_id

IntentsKey(project_id) == "project:" \o project_id \o ":intents"

RECURSIVE ClassClose(_, _)
\* the position of the ']' that closes the character class whose members start
\* at position i of pattern; Len(pattern) + 1 when the class is never closed
ClassClose(pattern, i) ==
    IF i > Len(pattern) THEN Len(pattern) + 1
    ELSE IF Ch(pattern, i) = "]" THEN i
    ELSE IF Ch(pattern, i) = "\\" /\ i < Len(pattern) THEN ClassClose(pattern, i + 2)
    ELSE ClassClose(pattern, i + 1)

RECURSIVE ClassMembers(_, _, _)
\* the characters of the class between positions i and close - 1 ('\' quotes
\* the next character; no input has a range 'a-z')
ClassMembers(pattern, i, close) ==
    IF i >= close THEN {}
    ELSE IF Ch(pattern, i) = "\\" /\ i + 1 < close
         THEN {Ch(pattern, i + 1)} \cup ClassMembers(pattern, i + 2, close)
    ELSE {Ch(pattern, i)} \cup ClassMembers(pattern, i + 1, close)

RECURSIVE GlobMatch(_, _)
\* the glob matching of KEYS: '*' any run of characters, '?' any one character,
\* '[...]' one character of the class ('[^...]' one character not in it),
\* '\x' the character x
GlobMatch(pattern, key) ==
    IF pattern = "" THEN key = ""
    ELSE IF Head(pattern) = "*"
         THEN GlobMatch(Tail(pattern), key) \/ (key # "" /\ GlobMatch(pattern, Tail(key)))
    ELSE IF key = "" THEN FALSE
    ELSE IF Head(pattern) = "?" THEN GlobMatch(Tail(pattern), Tail(key))
    ELSE IF Head(pattern) = "["
         THEN LET negated == Len(pattern) >= 2 /\ Ch(pattern, 2) = "^"
                  first == IF negated THEN 3 ELSE 2
                  close == ClassClose(pattern, first)
                  member == Head(key) \in ClassMembers(pattern, first, close)
              IN  /\ member # negated
                  /\ GlobMatch(SubSeq(pattern, close + 1, Len(pattern)), Tail(key))
    ELSE IF Head(pattern) = "\\" /\ Len(pattern) >= 2
         THEN Ch(pattern, 2) = Head(key)
              /\ GlobMatch(SubSeq(pattern, 3, Len(pattern)), Tail(key))
    ELSE Head(pattern) = Head(key) /\ GlobMatch(Tail(pattern), Tail(key))

(***************************************************************************)
(* A call in progress.  A handler runs as one step; `st` threads through   *)
(* its store commands:                                                     *)
(*   kv, exp     the store as the commands so far left it                  *)
(*   fuel        round trips the backend still answers before it goes down *)
(*               (NoFailure: it stays up)                                  *)
(*   down        the backend is down                                       *)
(*   inst, init  RedisClient._instance is not None, RedisClient._initialized *)
(*   exc         the exception propagating ("" when none)                  *)
(*   val         what the last command returned                            *)
(*   ret         what the handler returns                                  *)
(*   avail       what the last is_available() returned                     *)
(*   first       what the first is_available() of the call returned        *)
(*   err         the first exception a _safe_operation caught              *)
(*   degraded    a _safe_operation returned its default                    *)
(*   ttlSeen     what the TTL command returned, if one ran                 *)
(***************************************************************************)
NoFailure == -1

NoTtlRead == -3

Begin(fuel) ==
    [kv |-> kv, exp |-> exp, fuel |-> fuel, down |-> ~up,
     inst |-> rcInstance, init |-> rcInitialized,
     exc |-> "", val |-> FALSE, ret |-> PyNone, avail |-> FALSE,
     first |-> "unset", err |-> "", degraded |-> FALSE, ttlSeen |-> NoTtlRead]

\* the backend answers the next round trip
Answers(st) == ~st.down /\ st.fuel # 0

Spend(st) == IF st.fuel = NoFailure THEN st ELSE [st EXCEPT !.fuel = @ - 1]

\* a command sent through ContextManager.redis: AttributeError on a None client,
\* ConnectionError when the backend does not answer; otherwise the store becomes
\* newKv/newExp and the command returns result
Command(st, newKv, newExp, result) ==
    IF st.exc # "" THEN st
    ELSE IF ~ctxRedis THEN [st EXCEPT !.exc = "AttributeError"]
    ELSE IF ~Answers(st) THEN [st EXCEPT !.exc = "ConnectionError", !.down = TRUE]
    ELSE [Spend(st) EXCEPT !.kv = newKv, !.exp = newExp, !.val = result]

\* an exception raised by the handler's own code
Raise(st, e) == IF st.exc # "" THEN st ELSE [st EXCEPT !.exc = e]

HasKey(st, key) == key \in DOMAIN st.kv

\* GET: found is FALSE for None
Get(st, key) ==
    Command(st, st.kv, st.exp,
            IF HasKey(st, key) THEN [found |-> TRUE, data |-> st.kv[key]]
            ELSE [found |-> FALSE])

\* SET: the value, and no expiry
Set(st, key, value) ==
    Command(st, Put(st.kv, key, value), Restrict(st.exp, DOMAIN st.exp \ {key}), TRUE)

\* the mutant of Setex: a key that has a deadline keeps it
SetexKeepingDeadline(st, key, ttl, value) ==
    IF st.exc = "" /\ ctxRedis /\ Answers(st) /\ ttl <= 0
    THEN [Spend(st) EXCEPT !.exc = "ResponseError"]
    ELSE Command(st, Put(st.kv, key, value),
                 IF key \in DOMAIN st.exp THEN st.exp ELSE Put(st.exp, key, now + ttl), TRUE)

\* SETEX: the server rejects an expire time that is not positive
Setex(st, key, ttl, value) ==
    IF st.exc = "" /\ ctxRedis /\ Answers(st) /\ ttl <= 0
    THEN [Spend(st) EXCEPT !.exc = "ResponseError"]
    ELSE Command(st, Put(st.kv, key, value), Put(st.exp, key, now + ttl), TRUE)

\* DEL key [key ...]: the number of keys removed
Delete(st, keys) ==
    Command(st, Restrict(st.kv, DOMAIN st.kv \ keys), Restrict(st.exp, DOMAIN st.exp \ keys),
            Cardinality(keys \cap DOMAIN st.kv))

\* KEYS pattern
Keys(st, pattern) ==
    Command(st, st.kv, st.exp, { k \in DOMAIN st.kv : GlobMatch(pattern, k) })

ListAt(st, key) == IF HasKey(st, key) THEN st.kv[key] ELSE <<>>

\* the mutant of Lpush: the value goes to the tail of the list
LpushAtTail(st, key, value) ==
    Command(st, Put(st.kv, key, ListAt(st, key) \o <<value>>), st.exp,
            Len(ListAt(st, key)) + 1)

\* LPUSH: the value goes to the head of the list, which is created when absent
Lpush(st, key, value) ==
    Command(st, Put(st.kv, key, <<value>> \o ListAt(st, key)), st.exp,
            Len(ListAt(st, key)) + 1)

\* an index of LTRIM/LRANGE as a 0-based offset: negative ones count from the end
ListIndex(n, i) == IF i < 0 THEN n + i ELSE i

\* the elements start..stop (inclusive, 0-based) of l, as LTRIM keeps and LRANGE
\* returns them
Slice(l, start, stop) ==
    LET a == Max(ListIndex(Len(l), start), 0)
        b == ListIndex(Len(l), stop)
    IN  IF a > b \/ a >= Len(l) THEN <<>> ELSE SubSeq(l, a + 1, Min(b, Len(l) - 1) + 1)

\* LTRIM: the list keeps start..stop; an emptied list is removed
Ltrim(st, key, start, stop) ==
    LET kept == Slice(ListAt(st, key), start, stop)
    IN  IF kept = <<>>
        THEN Command(st, Restrict(st.kv, DOMAIN st.kv \ {key}),
                     Restrict(st.exp, DOMAIN st.exp \ {key}), TRUE)
        ELSE Command(st, Put(st.kv, key, kept), st.exp, TRUE)

Lrange(st, key, start, stop) ==
    Command(st, st.kv, st.exp, Slice(ListAt(st, key), start, stop))

\* TTL: -2 no such key, -1 no expiry, else the seconds left
TtlOf(st, key) ==
    IF ~HasKey(st, key) THEN -2 ELSE IF key \notin DOMAIN st.exp THEN -1 ELSE st.exp[key] - now

Ttl(st, key) ==
    LET r == Command(st, st.kv, st.exp, TtlOf(st, key))
    IN  IF r.exc = "" /\ st.exc = "" THEN [r EXCEPT !.ttlSeen = r.val] ELSE r

\* EXPIRE: a deadline for an existing key
Expire(st, key, ttl) ==
    Command(st, st.kv, IF HasKey(st, key) THEN Put(st.exp, key, now + ttl) ELSE st.exp,
            HasKey(st, key))

\* INFO
Info(st) == Command(st, st.kv, st.exp, TRUE)

(***************************************************************************)
(* Key-value store adapter (redis_client.py)                               *)
(***************************************************************************)
\* RedisClient.get_client: connect and ping when there is no instance yet
get_client(st) ==
    IF st.inst THEN st
    ELSE IF Answers(st) THEN [Spend(st) EXCEPT !.inst = TRUE, !.init = TRUE]
    ELSE [st EXCEPT !.inst = FALSE, !.init = FALSE, !.down = TRUE]

\* RedisClient.is_available: a lazy connect, then a ping whose failure is swallowed
Checked(st, answer) ==
    [st EXCEPT !.avail = answer,
               !.first = IF @ = "unset" THEN (IF answer THEN "yes" ELSE "no") ELSE @]

is_available(st) ==
    LET c == IF ~st.init THEN get_client(st) ELSE st
    IN  IF ~c.inst THEN Checked(c, FALSE)
        ELSE IF Answers(c) THEN Checked(Spend(c), TRUE)
        ELSE Checked([c EXCEPT !.down = TRUE], FALSE)

\* _safe_operation without its try/except
safe_operation_no_catch(a, r, default_return) ==
    IF ~a.avail THEN [a EXCEPT !.ret = default_return, !.degraded = TRUE] ELSE r

\* ContextManager._safe_operation: a is the call after is_available(), r the call
\* after operation_func() ran from a
safe_operation(a, r, default_return) ==
    IF ~a.avail THEN [a EXCEPT !.ret = default_return, !.degraded = TRUE]
    ELSE IF r.exc # ""
         THEN [r EXCEPT !.exc = "", !.ret = default_return, !.degraded = TRUE,
                        !.err = IF r.err = "" THEN r.exc ELSE r.err]
    ELSE r

Return(st, value) == IF st.exc # "" THEN st ELSE [st EXCEPT !.ret = value]

(***************************************************************************)
(* Context Store operations (context_manager.py).  Each method is          *)
(* is_available(), then operation_func(), wrapped by _safe_operation.      *)
(***************************************************************************)
\* `data = self.redis.get(key); if data: return json.loads(data); return None`
ReadJson(a, key) ==
    LET g == Get(a, key)
    IN  IF g.exc # "" THEN g
        ELSE IF g.val.found THEN Return(g, PyDict(JsonLoads(g.val.data)))
        ELSE Return(g, PyNone)

save_project_metadata_operation(a, project) ==
    IF "id" \notin DOMAIN project THEN Raise(a, "KeyError")
    ELSE Return(Set(a, MetadataKey(project["id"]), JsonDumps(project)), PyBool(TRUE))

save_project_metadata(st, project) ==
    LET a == is_available(st)
    IN  safe_operation(a, save_project_metadata_operation(a, project), PyBool(FALSE))

get_project_metadata(st, project_id) ==
    LET a == is_available(st)
    IN  safe_operation(a, ReadJson(a, MetadataKey(project_id)), PyNone)

\* `project.update(updates); project['updatedAt'] = datetime.now().isoformat()`
merged_project(project, updates) ==
    DictUpdate(DictUpdate(project, updates), [updatedAt |-> now])

update_project_metadata_operation(a, project_id, updates) ==
    LET g == get_project_metadata(a, project_id)
    IN  IF Truthy(g.ret)
        THEN save_project_metadata(g, merged_project(g.ret.v, updates))
        ELSE Return(g, PyBool(FALSE))

update_project_metadata(st, project_id, updates) ==
    LET a == is_available(st)
    IN  safe_operation(a, update_project_metadata_operation(a, project_id, updates),
                       PyBool(FALSE))

delete_project_operation(a, project_id) ==
    LET k == Keys(a, "project:" \o project_id \o ":*")
    IN  IF k.exc # "" THEN k
        ELSE IF k.val # {} THEN Return(Delete(k, k.val), PyBool(TRUE))
        ELSE Return(k, PyBool(TRUE))

delete_project(st, project_id) ==
    LET a == is_available(st)
    IN  safe_operation(a, delete_project_operation(a, project_id), PyBool(FALSE))

RECURSIVE GetEach(_, _, _, _)
\* `for key in keys: data = self.redis.get(key); if data: ...append(json.loads(data))`
\* over keys[i..]; acc is the list so far, left in st.val
GetEach(st, keys, i, acc) ==
    IF st.exc # "" THEN st
    ELSE IF i > Len(keys) THEN [st EXCEPT !.val = acc]
    ELSE LET g == Get(st, keys[i])
         IN  IF g.exc # "" THEN g
             ELSE GetEach(g, keys, i + 1,
                          IF g.val.found THEN Append(acc, JsonLoads(g.val.data)) ELSE acc)

\* the keys KEYS returned, in the order it returned them (order is one of the
\* orders of the keys that match; the keys it names that do not match are skipped)
InOrder(order, keys) == SelectSeq(order, LAMBDA k : k \in keys)

list_all_projects_operation(a, order) ==
    LET k == Keys(a, "project:*:metadata")
    IN  IF k.exc # "" THEN k
        ELSE LET g == GetEach(k, InOrder(order, k.val), 1, <<>>)
             IN  Return(g, PyList(g.val))

list_all_projects(st, order) ==
    LET a == is_available(st)
    IN  safe_operation(a, list_all_projects_operation(a, order), PyList(<<>>))

save_schema_operation(a, project_id, schema, ttl) ==
    LET schema_data == DictUpdate(schema, [lastSynced |-> now])
    IN  Return(Setex(a, SchemaKey(project_id), ttl, JsonDumps(schema_data)), PyBool(TRUE))

save_schema(st, project_id, schema, ttl) ==
    LET a == is_available(st)
    IN  safe_operation(a, save_schema_operation(a, project_id, schema, ttl), PyBool(FALSE))

get_schema(st, project_id) ==
    LET a == is_available(st)
    IN  safe_operation(a, ReadJson(a, SchemaKey(project_id)), PyNone)

invalidate_schema_noop(a, project_id) == Return(a, PyBool(TRUE))

invalidate_schema_operation(a, project_id) ==
    Return(Delete(a, {SchemaKey(project_id)}), PyBool(TRUE))

invalidate_schema(st, project_id) ==
    LET a == is_available(st)
    IN  safe_operation(a, invalidate_schema_operation(a, project_id), PyBool(FALSE))

\* the mutant of TrimMessages: the window keeps the oldest messages
TrimMessagesOldest(messages) ==
    IF Len(messages) > MAX_AI_MESSAGES THEN SubSeq(messages, 1, MAX_AI_MESSAGES) ELSE messages

\* `if len(messages) > MAX_AI_MESSAGES: messages = messages[-MAX_AI_MESSAGES:]`
TrimMessages(messages) ==
    IF Len(messages) > MAX_AI_MESSAGES THEN LastN(messages, MAX_AI_MESSAGES) ELSE messages

\* the mutant of session_or_new: the session always starts empty
session_always_new(found, data, session_id) ==
    [sessionId |-> session_id, messages |-> <<>>, createdAt |-> now]

\* `if data: session = json.loads(data) else: session = {...}`
session_or_new(found, data, session_id) ==
    IF found THEN JsonLoads(data)
    ELSE [sessionId |-> session_id, messages |-> <<>>, createdAt |-> now]

\* the mutant of session_with_message: the message is not appended
session_without_message(session, message) ==
    DictUpdate(session, [messages |-> TrimMessages(session.messages),
                         lastMessageAt |-> now])

\* the session after the append, the timestamp and the trim
session_with_message(session, message) ==
    DictUpdate(session, [messages |-> TrimMessages(Append(session.messages, message)),
                         lastMessageAt |-> now])

save_ai_message_operation(a, project_id, session_id, message) ==
    LET key == SessionKey(project_id, session_id)
        g == Get(a, key)
    IN  IF g.exc # "" THEN g
        ELSE LET session == session_or_new(g.val.found,
                                           IF g.val.found THEN g.val.data ELSE Null,
                                           session_id)
                 appended == session_with_message(session, message)
             IN  Return(Setex(g, key, AI_CONTEXT_TTL, JsonDumps(appended)), PyBool(TRUE))

save_ai_message(st, project_id, session_id, message) ==
    LET a == is_available(st)
    IN  safe_operation(a, save_ai_message_operation(a, project_id, session_id, message),
                       PyBool(FALSE))

get_ai_session(st, project_id, session_id) ==
    LET a == is_available(st)
    IN  safe_operation(a, ReadJson(a, SessionKey(project_id, session_id)), PyNone)

\* the second definition of delete_ai_session, which replaces the first
delete_ai_session_operation(a, project_id, session_id) ==
    Return(Delete(a, {SessionKey(project_id, session_id)}), PyBool(TRUE))

delete_ai_session(st, project_id, session_id) ==
    LET a == is_available(st)
    IN  safe_operation(a, delete_ai_session_operation(a, project_id, session_id),
                       PyBool(FALSE))

\* the listing's projection of a session: no message bodies
SessionSummary(session) ==
    [sessionId |-> session.sessionId, messageCount |-> Len(session.messages),
     createdAt |-> session.createdAt, lastMessageAt |-> session.lastMessageAt]

Project(f(_), l) == [i \in 1..Len(l) |-> f(l[i])]

list_ai_sessions_operation(a, project_id, order) ==
    LET k == Keys(a, "project:" \o project_id \o ":ai:session:*")
    IN  IF k.exc # "" THEN k
        ELSE LET g == GetEach(k, InOrder(order, k.val), 1, <<>>)
             IN  IF g.exc # "" THEN g
                 ELSE Return(g, PyList(LastN(Project(SessionSummary, g.val),
                                             MAX_AI_SESSIONS)))

list_ai_sessions(st, project_id, order) ==
    LET a == is_available(st)
    IN  safe_operation(a, list_ai_sessions_operation(a, project_id, order), PyList(<<>>))

\* the mutant of SetTtlOnce: the expiry is set on every save
SetTtlAlways(t, key) == Expire(t, key, QUERY_INTENTS_TTL)

\* `if self.redis.ttl(key) == -1: self.redis.expire(key, QUERY_INTENTS_TTL)`
SetTtlOnce(t, key) ==
    IF t.exc = "" /\ t.val = -1 THEN Expire(t, key, QUERY_INTENTS_TTL) ELSE t

\* `self.redis.ltrim(key, 0, MAX_QUERY_INTENTS - 1)`
TrimIntents(st, key) == Ltrim(st, key, 0, MAX_QUERY_INTENTS - 1)

save_query_intent_operation(a, project_id, intent) ==
    LET key == IntentsKey(project_id)
        pushed == Lpush(a, key, JsonDumps(intent))
        trimmed == TrimIntents(pushed, key)
        t == Ttl(trimmed, key)
    IN  Return(SetTtlOnce(t, key), PyBool(TRUE))

save_query_intent(st, project_id, intent) ==
    LET a == is_available(st)
    IN  safe_operation(a, save_query_intent_operation(a, project_id, intent), PyBool(FALSE))

get_query_intents_operation(a, project_id, limit) ==
    LET r == Lrange(a, IntentsKey(project_id), 0, limit - 1)
    IN  IF r.exc # "" THEN r ELSE Return(r, PyList(Project(JsonLoads, r.val)))

get_query_intents(st, project_id, limit) ==
    LET a == is_available(st)
    IN  safe_operation(a, get_query_intents_operation(a, project_id, limit), PyList(<<>>))

clear_query_intents_operation(a, project_id) ==
    Return(Delete(a, {IntentsKey(project_id)}), PyBool(TRUE))

clear_query_intents(st, project_id) ==
    LET a == is_available(st)
    IN  safe_operation(a, clear_query_intents_operation(a, project_id), PyBool(FALSE))

\* the four nested reads of the stats dict, each a _safe_operation of its own
get_project_stats_operation(a, project_id, order) ==
    LET m == get_project_metadata(a, project_id)
        s == get_schema(m, project_id)
        l == list_ai_sessions(s, project_id, order)
        q == get_query_intents(l, project_id, MAX_QUERY_INTENTS)
    IN  Return(q, PyDict([projectId |-> project_id,
                          hasMetadata |-> Truthy(m.ret),
                          hasSchema |-> Truthy(s.ret),
                          aiSessionCount |-> Len(l.ret.v),
                          queryIntentCount |-> Len(q.ret.v),
                          timestamp |-> now]))

StatsUnavailable(project_id) ==
    PyDict([projectId |-> project_id, error |-> "Redis unavailable"])

get_project_stats(st, project_id, order) ==
    LET a == is_available(st)
    IN  safe_operation(a, get_project_stats_operation(a, project_id, order),
                       StatsUnavailable(project_id))

health_check(st) ==
    LET a == is_available(st)
    IN  IF ~a.avail
        THEN [a EXCEPT !.ret = PyDict([status |-> "unavailable",
                                       message |-> "Redis connection failed"]),
                       !.degraded = TRUE]
        ELSE LET i == Info(a)
             IN  IF i.exc # ""
                 THEN [i EXCEPT !.exc = "", !.err = i.exc,
                                !.ret = PyDict([status |-> "error", error |-> i.exc])]
                 ELSE Return(i, PyDict([status |-> "healthy"]))

(***************************************************************************)
(* Query-Intent Recorder and the intents POST route (server.py)            *)
(***************************************************************************)
\* the mutant of RecordedError: the message is kept whatever the outcome
RecordedErrorAlways(was_successful, error_msg) == error_msg

\* `error_msg if not was_successful else None`
RecordedError(was_successful, error_msg) == IF ~was_successful THEN error_msg ELSE Null

BuildIntent(id, query, was_successful, error_msg, user_question) ==
    [id |-> id, sqlQuery |-> query, userQuestion |-> user_question, executedAt |-> now,
     wasSuccessful |-> was_successful,
     errorMessage |-> RecordedError(was_successful, error_msg),
     tablesReferenced |-> extract_tables_from_query(query),
     executionTimeMs |-> 1]

\* the mutant of save_query_intent_helper: a DDL statement invalidates whatever
\* its outcome
save_query_intent_helper_any_outcome(st, project_id, query, was_successful, error_msg, user_question, id) ==
    LET intent == BuildIntent(id, query, was_successful, error_msg, user_question)
        saved == save_query_intent(st, project_id, intent)
        done == IF is_ddl_query(query) THEN invalidate_schema(saved, project_id) ELSE saved
    IN  [done EXCEPT !.exc = "", !.ret = PyNone, !.val = saved.ret]

\* save_query_intent_helper; the except clause around it swallows what is raised
save_query_intent_helper(st, project_id, query, was_successful, error_msg, user_question, id) ==
    LET intent == BuildIntent(id, query, was_successful, error_msg, user_question)
        saved == save_query_intent(st, project_id, intent)
        done == IF was_successful /\ is_ddl_query(query)
                THEN invalidate_schema(saved, project_id) ELSE saved
    IN  [done EXCEPT !.exc = "", !.ret = PyNone, !.val = saved.ret]

\* the mutant of StripResults: the payload is stored as it came
KeepResults(intent) == intent

\* `if 'result' in intent: del intent['result']`, and the same for 'results'
StripResults(intent) == DictWithout(intent, {"result", "results"})

Http(status) == [kind |-> "http", status |-> status]

\* the route POST /api/context/intents/<project_id>
save_query_intent_route(st, project_id, payload, id) ==
    IF "sqlQuery" \notin DOMAIN payload THEN [st EXCEPT !.ret = Http(400), !.val = PyNone]
    ELSE LET withId == IF "id" \in DOMAIN payload THEN payload
                       ELSE DictUpdate(payload, [id |-> id])
             stamped == IF "executedAt" \in DOMAIN withId THEN withId
                        ELSE DictUpdate(withId, [executedAt |-> now])
             saved == save_query_intent(st, project_id, StripResults(stamped))
         IN  [saved EXCEPT !.ret = IF saved.ret.v THEN Http(200) ELSE Http(500),
                           !.val = saved.ret]

(***************************************************************************)
(* Inputs of the Context Store                                             *)
(***************************************************************************)
MaxIntents == 2
MaxMsgs == 2
MaxSaves == 2
MaxTicks == 2
CapIntents == 52
CapMsgs == 102

Pids == {"p1", "p2"}

Sids == {"s1"}

\* the project and the session of the single-tenant specifications
ThePid == "p1"

TheSid == "s1"

\* the backend stays up (NoFailure), or goes down before the k-th of the n round
\* trips a call can make (fuel k - 1)
Fuels(n) == IF up THEN {NoFailure} \cup 0..(n - 1) ELSE {NoFailure}

Projects == { [id |-> ThePid, name |-> "shop", dialect |-> "trino", database |-> "sales"] }

Updates == { [name |-> "renamed"] }

Schemas == { [tables |-> <<"orders">>, isDiscovered |-> TRUE] }

\* the TTL a caller of save_schema passes: the default, or the route's ?ttl=
TtlChoices == {SCHEMA_TTL, 0}

\* what the execute endpoints report: <<statement, was_successful, error_msg>>
Executions ==
    { <<"SELECT * FROM orders", TRUE, <<>>>>,
      <<"CREATE TABLE t (id INT)", TRUE, <<>>>>,
      <<"CREATE TABLE t (id INT)", FALSE, <<"engine error">>>> }

RoutePayloads ==
    { [sqlQuery |-> "SELECT 1", result |-> "rows"],
      [sqlQuery |-> "SELECT 1", results |-> "rows", id |-> "caller-id"],
      [results |-> "rows"] }

Limits == {MAX_QUERY_INTENTS, 1}

\* the clock advances by half a schema lifetime or by a whole intents lifetime
TickSteps == {SCHEMA_TTL \div 2, QUERY_INTENTS_TTL}

\* str(uuid.uuid4()): a fresh identifier
FreshId(n) == "uuid-" \o ToString(n)

SessionKeys == { SessionKey(p, s) : p \in Pids, s \in Sids }

\* the orders in which KEYS can return the keys that match pattern
KeyOrders(pattern) == IterationOrders({ k \in DOMAIN kv : GlobMatch(pattern, k) })

(***************************************************************************)
(* The record of a call                                                    *)
(***************************************************************************)
\* the threads that call the Context Store at the same time
Callers == {"a", "b"}

\* no call in flight.  op: the method; pc: the round trip the call makes next;
\* input: its argument; seen: what its read returned; behind: how many writes to
\* its key had been made when it read; ret: what it returned; peers: where every
\* caller was when the call started
NoFlight ==
    [op |-> "none", pc |-> "idle", pid |-> "", sid |-> "", input |-> PyNone,
     seen |-> Null, behind |-> 0, ret |-> PyNone, peers |-> [d \in Callers |-> "idle"]]

NoCall ==
    [op |-> "none", pid |-> "", sid |-> "", upAtStart |-> FALSE, avail |-> FALSE,
     failed |-> FALSE, err |-> "", degraded |-> FALSE, ttlSeen |-> NoTtlRead,
     inner |-> PyNone, success |-> FALSE, ddl |-> FALSE, hadResults |-> FALSE,
     limit |-> 0, cached |-> FALSE, arg |-> PyNone, removed |-> {}]

\* no call is waiting for its caller to take the response
Idle == last.op = "none"

\* the call op(pid, sid) that started from the current state and ended as r
CallRecord(op, pid, sid, r) ==
    [NoCall EXCEPT !.op = op, !.pid = pid, !.sid = sid, !.upAtStart = up,
                   !.avail = r.first = "yes", !.failed = up /\ r.down, !.err = r.err,
                   !.degraded = r.degraded, !.ttlSeen = r.ttlSeen]

Removed(r, key) == key \in DOMAIN kv /\ key \notin DOMAIN r.kv

\* what a call that neither saves an intent nor appends a message does to the logs
LogsAfter(r) ==
    /\ intentLog' = [p \in Pids |-> IF Removed(r, IntentsKey(p)) THEN <<>> ELSE intentLog[p]]
    /\ msgLog' = [k \in SessionKeys |-> IF Removed(r, k) THEN <<>> ELSE msgLog[k]]

\* the call ends: the store, the adapter and the caller's view
Ends(r, record) ==
    /\ Idle
    /\ kv' = r.kv
    /\ exp' = r.exp
    /\ up' = ~r.down
    /\ rcInstance' = r.inst
    /\ rcInitialized' = r.init
    /\ ret' = IF r.exc # "" THEN PyRaised(r.exc) ELSE r.ret
    /\ last' = record
    /\ UNCHANGED <<ctxRedis, now, ticks, nsVars, calls>>

\* a call that touches neither the intents counter, the messages counter nor
\* the DDL history
Plain(r, record) ==
    /\ Ends(r, record)
    /\ LogsAfter(r)
    /\ UNCHANGED <<nextId, nextMsg, ddlSince>>

(***************************************************************************)
(* Calls: one per Context Store method and server entry point              *)
(***************************************************************************)
SaveProject(project, fuel) ==
    LET r == save_project_metadata(Begin(fuel), project)
    IN  Plain(r, CallRecord("save_project_metadata", project.id, "", r))

ReadProject(p, fuel) ==
    LET r == get_project_metadata(Begin(fuel), p)
    IN  Plain(r, CallRecord("get_project_metadata", p, "", r))

UpdateProject(p, updates, fuel) ==
    LET r == update_project_metadata(Begin(fuel), p, updates)
    IN  Plain(r, [CallRecord("update_project_metadata", p, "", r)
                    EXCEPT !.arg = PyDict(updates)])

RemoveProject(p, fuel) ==
    LET r == delete_project(Begin(fuel), p)
    IN  Plain(r, [CallRecord("delete_project", p, "", r)
                    EXCEPT !.removed = DOMAIN kv \ DOMAIN r.kv])

ListProjects(order, fuel) ==
    LET r == list_all_projects(Begin(fuel), order)
    IN  Plain(r, CallRecord("list_all_projects", "", "", r))

NoDdl == [ran |-> FALSE, clean |-> FALSE, cleanHit |-> FALSE]

CacheSchema(p, schema, ttl, fuel) ==
    LET r == save_schema(Begin(fuel), p, schema, ttl)
    IN  /\ Ends(r, CallRecord("save_schema", p, "", r))
        /\ LogsAfter(r)
        /\ ddlSince' = IF r.ret = PyBool(TRUE) THEN [ddlSince EXCEPT ![p] = NoDdl]
                       ELSE ddlSince
        /\ UNCHANGED <<nextId, nextMsg>>

ReadSchema(p, fuel) ==
    LET r == get_schema(Begin(fuel), p)
    IN  Plain(r, CallRecord("get_schema", p, "", r))

DropSchema(p, fuel) ==
    LET r == invalidate_schema(Begin(fuel), p)
    IN  Plain(r, CallRecord("invalidate_schema", p, "", r))

\* save_ai_message for session s of project p, the message being the next one
AppendMessage(p, s, fuel) ==
    LET message == [role |-> "user", content |-> FreshId(nextMsg + 1), timestamp |-> now]
        r == save_ai_message(Begin(fuel), p, s, message)
        stored == r.ret = PyBool(TRUE)
    IN  /\ Ends(r, CallRecord("save_ai_message", p, s, r))
        /\ nextMsg' = IF stored THEN nextMsg + 1 ELSE nextMsg
        /\ msgLog' = [k \in SessionKeys |->
                        IF k = SessionKey(p, s) /\ stored THEN Append(msgLog[k], message)
                        ELSE IF Removed(r, k) THEN <<>> ELSE msgLog[k]]
        /\ intentLog' = [q \in Pids |->
                           IF Removed(r, IntentsKey(q)) THEN <<>> ELSE intentLog[q]]
        /\ UNCHANGED <<nextId, ddlSince>>

ReadSession(p, s, fuel) ==
    LET r == get_ai_session(Begin(fuel), p, s)
    IN  Plain(r, CallRecord("get_ai_session", p, s, r))

DropSession(p, s, fuel) ==
    LET r == delete_ai_session(Begin(fuel), p, s)
    IN  Plain(r, CallRecord("delete_ai_session", p, s, r))

ListSessions(p, order, fuel) ==
    LET r == list_ai_sessions(Begin(fuel), p, order)
    IN  Plain(r, CallRecord("list_ai_sessions", p, "", r))

\* what a call that handed `intent` to save_query_intent for p does to the history
\* (r.val is what save_query_intent returned): a fresh id is used up when the
\* intent reached the list, and a save that failed breaks the run of saves
IntentHistory(r, p, intent) ==
    LET before == IF IntentsKey(p) \in DOMAIN kv THEN kv[IntentsKey(p)] ELSE <<>>
        pushed == ListAt(r, IntentsKey(p)) # before
    IN  /\ nextId' = IF pushed THEN nextId + 1 ELSE nextId
        /\ intentLog' = [q \in Pids |->
                           IF q = p
                           THEN (IF r.val = PyBool(TRUE) THEN Append(intentLog[q], intent)
                                 ELSE <<>>)
                           ELSE IF Removed(r, IntentsKey(q)) THEN <<>> ELSE intentLog[q]]
        /\ msgLog' = [k \in SessionKeys |-> IF Removed(r, k) THEN <<>> ELSE msgLog[k]]
        /\ UNCHANGED nextMsg

\* save_query_intent_helper after an execution for p
Record(p, execution, fuel) ==
    LET id == FreshId(nextId + 1)
        query == execution[1]
        r == save_query_intent_helper(Begin(fuel), p, query, execution[2], execution[3],
                                      Null, id)
        ddl == execution[2] /\ is_ddl_query(query)
        clean == up /\ ~r.down
        cached == SchemaKey(p) \in DOMAIN kv
    IN  /\ Ends(r, [CallRecord("save_query_intent_helper", p, "", r) EXCEPT
                        !.inner = r.val, !.success = execution[2],
                        !.ddl = is_ddl_query(query), !.cached = cached,
                        !.arg = PyDict([statement |-> query])])
        /\ IntentHistory(r, p, BuildIntent(id, query, execution[2], execution[3], Null))
        /\ ddlSince' = IF ddl
                       THEN [ddlSince EXCEPT ![p] =
                                [ran |-> TRUE, clean |-> @.clean \/ clean,
                                 cleanHit |-> @.cleanHit \/ (clean /\ cached)]]
                       ELSE ddlSince

\* POST /api/context/intents/<p> with a caller-built payload
PostIntent(p, payload, fuel) ==
    LET id == FreshId(nextId + 1)
        r == save_query_intent_route(Begin(fuel), p, payload, id)
        stored == StripResults(DictUpdate([id |-> id, executedAt |-> now], payload))
    IN  /\ Ends(r, [CallRecord("save_query_intent_route", p, "", r) EXCEPT
                        !.inner = r.val,
                        !.hadResults = DOMAIN payload \cap {"result", "results"} # {}])
        /\ IntentHistory(r, p, stored)
        /\ UNCHANGED ddlSince

\* ContextManager.save_query_intent called directly with the next intent
StoreIntent(p, fuel) ==
    LET intent == [id |-> FreshId(nextId + 1), sqlQuery |-> "SELECT 1", executedAt |-> now]
        saved == save_query_intent(Begin(fuel), p, intent)
        r == [saved EXCEPT !.val = saved.ret]
    IN  /\ Ends(r, [CallRecord("save_query_intent", p, "", r) EXCEPT !.inner = r.val])
        /\ IntentHistory(r, p, intent)
        /\ UNCHANGED ddlSince

ReadIntents(p, limit, fuel) ==
    LET r == get_query_intents(Begin(fuel), p, limit)
    IN  Plain(r, [CallRecord("get_query_intents", p, "", r) EXCEPT !.limit = limit])

ClearIntents(p, fuel) ==
    LET r == clear_query_intents(Begin(fuel), p)
    IN  Plain(r, CallRecord("clear_query_intents", p, "", r))

Stats(p, order, fuel) ==
    LET r == get_project_stats(Begin(fuel), p, order)
    IN  Plain(r, CallRecord("get_project_stats", p, "", r))

Health(fuel) ==
    LET r == health_check(Begin(fuel))
    IN  Plain(r, CallRecord("health_check", "", "", r))

\* the caller takes the response; the next call can start
Acknowledge ==
    /\ ~Idle
    /\ last' = NoCall
    /\ ret' = PyNone
    /\ UNCHANGED <<adapterVars, storeVars, historyVars, nsVars, calls>>

(***************************************************************************)
(* The environment: the backend fails and recovers, time passes            *)
(***************************************************************************)
BackendDown ==
    /\ Idle
    /\ up
    /\ up' = FALSE
    /\ UNCHANGED <<rcInstance, rcInitialized, ctxRedis, storeVars, callVars, historyVars,
                   nsVars>>

BackendUp ==
    /\ Idle
    /\ ~up
    /\ up' = TRUE
    /\ UNCHANGED <<rcInstance, rcInitialized, ctxRedis, storeVars, callVars, historyVars,
                   nsVars>>

\* time passes by d; the store drops every key whose deadline has passed
Passes(d) ==
    LET expired == { k \in DOMAIN exp : exp[k] <= now + d }
    IN  /\ Idle
        /\ now' = now + d
        /\ ticks' = ticks + 1
        /\ kv' = Restrict(kv, DOMAIN kv \ expired)
        /\ exp' = Restrict(exp, DOMAIN exp \ expired)
        /\ intentLog' = [p \in Pids |->
                           IF IntentsKey(p) \in expired THEN <<>> ELSE intentLog[p]]
        /\ msgLog' = [k \in SessionKeys |-> IF k \in expired THEN <<>> ELSE msgLog[k]]
        /\ UNCHANGED <<adapterVars, callVars, nextId, nextMsg, ddlSince, nsVars>>

(***************************************************************************)
(* Specification Spec: every Context Store method, for one project, with   *)
(* the backend failing and recovering at any point                         *)
(***************************************************************************)
SaveProjectMetadata == \E project \in Projects, fuel \in Fuels(3) : SaveProject(project, fuel)

GetProjectMetadata == \E fuel \in Fuels(3) : ReadProject(ThePid, fuel)

UpdateProjectMetadata ==
    \E updates \in Updates, fuel \in Fuels(6) : UpdateProject(ThePid, updates, fuel)

DeleteProject == \E fuel \in Fuels(4) : RemoveProject(ThePid, fuel)

ListAllProjects ==
    \E order \in KeyOrders("project:*:metadata"), fuel \in Fuels(4) : ListProjects(order, fuel)

SaveSchema ==
    \E schema \in Schemas, ttl \in TtlChoices, fuel \in Fuels(3) :
        CacheSchema(ThePid, schema, ttl, fuel)

GetSchema == \E fuel \in Fuels(3) : ReadSchema(ThePid, fuel)

InvalidateSchema == \E fuel \in Fuels(3) : DropSchema(ThePid, fuel)

SaveAIMessage ==
    /\ nextMsg < MaxMsgs
    /\ \E fuel \in Fuels(4) : AppendMessage(ThePid, TheSid, fuel)

GetAISession == \E fuel \in Fuels(3) : ReadSession(ThePid, TheSid, fuel)

DeleteAISession == \E fuel \in Fuels(3) : DropSession(ThePid, TheSid, fuel)

ListAISessions ==
    \E order \in KeyOrders("project:" \o ThePid \o ":ai:session:*"), fuel \in Fuels(4) :
        ListSessions(ThePid, order, fuel)

SaveQueryIntent ==
    /\ nextId < MaxIntents
    /\ \E fuel \in Fuels(6) : StoreIntent(ThePid, fuel)

GetQueryIntents == \E limit \in Limits, fuel \in Fuels(3) : ReadIntents(ThePid, limit, fuel)

ClearQueryIntents == \E fuel \in Fuels(3) : ClearIntents(ThePid, fuel)

GetProjectStats ==
    \E order \in KeyOrders("project:" \o ThePid \o ":ai:session:*"), fuel \in Fuels(11) :
        Stats(ThePid, order, fuel)

HealthCheck == \E fuel \in Fuels(3) : Health(fuel)

NsIdle ==
    /\ nsKind = "none"
    /\ nsQuery = ""
    /\ nsPid = ""
    /\ nsTable = ""
    /\ nsRewritten = ""
    /\ nsPrefixed = ""
    /\ nsTwice = ""
    /\ nsDisplay = ""
    /\ nsDone = {}
    /\ nsTables = {}
    /\ nsListing = {}

\* the process has started: ContextManager() fetched the client once, which
\* connected if and only if the backend answered
InitStore ==
    /\ up \in BOOLEAN
    /\ rcInstance = up
    /\ rcInitialized = up
    /\ ctxRedis = up
    /\ kv = EmptyMap
    /\ exp = EmptyMap
    /\ now = 0
    /\ ret = PyNone
    /\ last = NoCall
    /\ calls = [c \in Callers |-> NoFlight]
    /\ ticks = 0
    /\ nextId = 0
    /\ nextMsg = 0
    /\ intentLog = [p \in Pids |-> <<>>]
    /\ msgLog = [k \in SessionKeys |-> <<>>]
    /\ ddlSince = [p \in Pids |-> NoDdl]

Init == InitStore /\ NsIdle

Next ==
    \/ SaveProjectMetadata
    \/ GetProjectMetadata
    \/ UpdateProjectMetadata
    \/ DeleteProject
    \/ ListAllProjects
    \/ SaveSchema
    \/ GetSchema
    \/ InvalidateSchema
    \/ SaveAIMessage
    \/ GetAISession
    \/ DeleteAISession
    \/ ListAISessions
    \/ SaveQueryIntent
    \/ GetQueryIntents
    \/ ClearQueryIntents
    \/ GetProjectStats
    \/ HealthCheck
    \/ Acknowledge
    \/ BackendDown
    \/ BackendUp

Spec == Init /\ [][Next]_vars

(***************************************************************************)
(* Specification of the namespacer: draw the inputs, apply the functions   *)
(***************************************************************************)
InitNS ==
    /\ nsKind \in {"rewrite", "prefix"}
    /\ nsPid \in ProjectIds
    /\ IF nsKind = "rewrite"
       THEN nsQuery \in Queries /\ nsTable = ""
       ELSE nsTable \in TableNames /\ nsQuery = ""
    /\ nsRewritten = ""
    /\ nsPrefixed = ""
    /\ nsTwice = ""
    /\ nsDisplay = ""
    /\ nsDone = {}
    /\ nsTables = {}
    /\ nsListing = {}
    /\ InitStore
    /\ up

RewriteStep ==
    /\ nsKind \in {"rewrite", "naming"}
    /\ "rewrite" \notin nsDone
    /\ \E order \in IterationOrders(extract_tables_from_query(nsQuery)) :
          nsRewritten' = rewrite_query_with_prefix(nsQuery, nsPid, order)
    /\ nsDone' = nsDone \cup {"rewrite"}
    /\ UNCHANGED <<nsKind, nsQuery, nsPid, nsTable, nsPrefixed, nsTwice, nsDisplay, nsTables,
                   nsListing>>
    /\ UNCHANGED <<adapterVars, storeVars, callVars, historyVars>>

AddPrefixStep ==
    /\ nsKind = "prefix"
    /\ "add" \notin nsDone
    /\ nsPrefixed' = add_table_prefix(nsTable, nsPid)
    /\ nsDone' = nsDone \cup {"add"}
    /\ UNCHANGED <<nsKind, nsQuery, nsPid, nsTable, nsRewritten, nsTwice, nsDisplay, nsTables,
                   nsListing>>
    /\ UNCHANGED <<adapterVars, storeVars, callVars, historyVars>>

AddPrefixAgainStep ==
    /\ "add" \in nsDone
    /\ "again" \notin nsDone
    /\ nsTwice' = add_table_prefix(nsPrefixed, nsPid)
    /\ nsDone' = nsDone \cup {"again"}
    /\ UNCHANGED <<nsKind, nsQuery, nsPid, nsTable, nsRewritten, nsPrefixed, nsDisplay,
                   nsTables, nsListing>>
    /\ UNCHANGED <<adapterVars, storeVars, callVars, historyVars>>

RemovePrefixStep ==
    /\ "add" \in nsDone
    /\ "remove" \notin nsDone
    /\ nsDisplay' = remove_table_prefix(nsPrefixed, nsPid)
    /\ nsDone' = nsDone \cup {"remove"}
    /\ UNCHANGED <<nsKind, nsQuery, nsPid, nsTable, nsRewritten, nsPrefixed, nsTwice,
                   nsTables, nsListing>>
    /\ UNCHANGED <<adapterVars, storeVars, callVars, historyVars>>

UploadStep ==
    /\ nsKind = "naming"
    /\ "upload" \notin nsDone
    /\ nsTables' = nsTables \cup {upload_table_name(nsTable \o ".csv", nsPid)}
    /\ nsDone' = nsDone \cup {"upload"}
    /\ UNCHANGED <<nsKind, nsQuery, nsPid, nsTable, nsRewritten, nsPrefixed, nsTwice,
                   nsDisplay, nsListing>>
    /\ UNCHANGED <<adapterVars, storeVars, callVars, historyVars>>

DiscoverStep ==
    /\ nsKind = "naming"
    /\ "upload" \in nsDone
    /\ "discover" \notin nsDone
    /\ nsListing' = discover_tables(nsTables, nsPid)
    /\ nsDone' = nsDone \cup {"discover"}
    /\ UNCHANGED <<nsKind, nsQuery, nsPid, nsTable, nsRewritten, nsPrefixed, nsTwice,
                   nsDisplay, nsTables>>
    /\ UNCHANGED <<adapterVars, storeVars, callVars, historyVars>>

NextNS == RewriteStep \/ AddPrefixStep \/ AddPrefixAgainStep \/ RemovePrefixStep

SpecNS == InitNS /\ [][NextNS]_vars

(***************************************************************************)
(* Specification SpecNaming: a table is uploaded for a project, queried    *)
(* by its logical name and listed by schema discovery                      *)
(***************************************************************************)
InitNaming ==
    /\ nsKind = "naming"
    /\ nsPid \in ProjectIds
    /\ nsTable \in SimpleNames
    /\ nsQuery = "SELECT * FROM " \o nsTable
    /\ nsTables \in ExistingTables
    /\ nsListing = {}
    /\ nsRewritten = ""
    /\ nsPrefixed = ""
    /\ nsTwice = ""
    /\ nsDisplay = ""
    /\ nsDone = {}
    /\ InitStore
    /\ up

NextNaming == UploadStep \/ RewriteStep \/ DiscoverStep

SpecNaming == InitNaming /\ [][NextNaming]_vars

(***************************************************************************)
(* Specification SpecRecorder: the execute endpoints' recorder and the     *)
(* intents POST route next to the schema cache of one project              *)
(***************************************************************************)
RecordOutcome ==
    /\ nextId < MaxIntents
    /\ \E execution \in Executions, fuel \in Fuels(8) : Record(ThePid, execution, fuel)

SaveQueryIntentRoute ==
    /\ nextId < MaxIntents
    /\ \E payload \in RoutePayloads, fuel \in Fuels(6) : PostIntent(ThePid, payload, fuel)

NextRecorder ==
    \/ RecordOutcome
    \/ SaveQueryIntentRoute
    \/ GetQueryIntents
    \/ ClearQueryIntents
    \/ SaveSchema
    \/ GetSchema
    \/ InvalidateSchema
    \/ Acknowledge
    \/ BackendDown
    \/ BackendUp

SpecRecorder == Init /\ [][NextRecorder]_vars

(***************************************************************************)
(* Specification SpecTtl: the intents list of one project while time       *)
(* passes and the backend fails and recovers                               *)
(***************************************************************************)
SaveQueryIntentInTime ==
    /\ nextId < MaxSaves
    /\ \E fuel \in Fuels(6) : StoreIntent(ThePid, fuel)

Tick ==
    /\ ticks < MaxTicks
    /\ \E d \in TickSteps : Passes(d)

NextTtl ==
    \/ SaveQueryIntentInTime
    \/ GetQueryIntents
    \/ ClearQueryIntents
    \/ Tick
    \/ Acknowledge
    \/ BackendDown
    \/ BackendUp

SpecTtl == Init /\ [][NextTtl]_vars

(***************************************************************************)
(* Specification SpecIntentCap: more than MAX_QUERY_INTENTS intents are    *)
(* saved for one project and read back with the default limit              *)
(***************************************************************************)
\* the process started with the backend up
InitUp == Init /\ up

SaveNextIntent ==
    /\ nextId < CapIntents
    /\ \E fuel \in Fuels(6) : StoreIntent(ThePid, fuel)

GetLatestIntents == \E fuel \in Fuels(3) : ReadIntents(ThePid, MAX_QUERY_INTENTS, fuel)

NextIntentCap ==
    \/ SaveNextIntent
    \/ GetLatestIntents
    \/ Acknowledge
    \/ BackendUp

SpecIntentCap == InitUp /\ [][NextIntentCap]_vars

(***************************************************************************)
(* Specification SpecSessionCap: more than MAX_AI_MESSAGES messages are    *)
(* appended to one session                                                 *)
(***************************************************************************)
SaveNextMessage ==
    /\ nextMsg < CapMsgs
    /\ \E fuel \in Fuels(4) : AppendMessage(ThePid, TheSid, fuel)

NextSessionCap ==
    \/ SaveNextMessage
    \/ GetAISession
    \/ Acknowledge
    \/ BackendUp

SpecSessionCap == InitUp /\ [][NextSessionCap]_vars

(***************************************************************************)
(* Claims about the namespacer                                             *)
(***************************************************************************)

\* C1: after the rewrite of statement q for project P, every table name the
\* rewritten text references (every name extract_tables_from_query returns for
\* it) starts with P's own prefix.
C1_TenantIsolation ==
    "rewrite" \in nsDone =>
        \A t \in extract_tables_from_query(nsRewritten) :
            StartsWith(t, get_table_prefix(nsPid))

\* C9: prefixing is idempotent:
\* add_table_prefix(add_table_prefix(T, P), P) = add_table_prefix(T, P).
C9_IdempotentPrefix ==
    "again" \in nsDone => nsTwice = nsPrefixed

\* C9 witness: the second prefixing ran on a name that the first one changed.
C9_Witness ==
    /\ "again" \in nsDone
    /\ nsPrefixed # nsTable
    /\ nsTable # ""

\* C10: for a table name T that does not start with 'proj_',
\* remove_table_prefix(add_table_prefix(T, P), P) = T.
C10_RoundTrip ==
    ("remove" \in nsDone /\ ~StartsWith(nsTable, "proj_")) => nsDisplay = nsTable

\* C10 witness: a name without the generic tag was prefixed and stripped again.
C10_Witness ==
    /\ "remove" \in nsDone
    /\ ~StartsWith(nsTable, "proj_")
    /\ nsTable # ""
    /\ nsPrefixed # nsTable

(***************************************************************************)
(* Claims about the Context Store                                          *)
(***************************************************************************)
\* the records of project p's intents list
StoredIntents(p) ==
    Project(JsonLoads, IF IntentsKey(p) \in DOMAIN kv THEN kv[IntentsKey(p)] ELSE <<>>)

\* C2: after more than MAX_QUERY_INTENTS successful save_query_intent calls in
\* a row for one project, get_query_intents with the default limit returns
\* exactly the last MAX_QUERY_INTENTS intents saved, the most recent first.
C2_IntentCap ==
    (/\ last.op = "get_query_intents"
     /\ last.limit = MAX_QUERY_INTENTS
     /\ ~last.degraded
     /\ Len(intentLog[last.pid]) > MAX_QUERY_INTENTS)
        => /\ Len(ret.v) = MAX_QUERY_INTENTS
           /\ ret = PyList(Reverse(LastN(intentLog[last.pid], MAX_QUERY_INTENTS)))

\* C2 witness: a read served by the store after more than MAX_QUERY_INTENTS
\* saves in a row returned MAX_QUERY_INTENTS records.
C2_Witness ==
    /\ last.op = "get_query_intents"
    /\ ~last.degraded
    /\ Len(intentLog[last.pid]) > MAX_QUERY_INTENTS
    /\ Len(ret.v) = MAX_QUERY_INTENTS

\* C3: the stored message list of a session is the last
\* min(N, MAX_AI_MESSAGES) of the N messages appended to it, in append order.
C3_SlidingWindow ==
    \A k \in SessionKeys :
        k \in DOMAIN kv =>
            /\ JsonLoads(kv[k]).messages = LastN(msgLog[k], MAX_AI_MESSAGES)
            /\ Len(JsonLoads(kv[k]).messages) = Min(Len(msgLog[k]), MAX_AI_MESSAGES)

\* C3 witness: more than MAX_AI_MESSAGES messages were appended to a session
\* and the list holds MAX_AI_MESSAGES of them.
C3_Witness ==
    \E k \in SessionKeys :
        /\ k \in DOMAIN kv
        /\ Len(msgLog[k]) > MAX_AI_MESSAGES
        /\ Len(JsonLoads(kv[k]).messages) = MAX_AI_MESSAGES
        /\ last.op = "save_ai_message"

StoreMethods ==
    {"save_project_metadata", "get_project_metadata", "update_project_metadata",
     "delete_project", "list_all_projects", "save_schema", "get_schema",
     "invalidate_schema", "save_ai_message", "get_ai_session", "delete_ai_session",
     "list_ai_sessions", "save_query_intent", "get_query_intents",
     "clear_query_intents", "get_project_stats", "health_check"}

\* the default a Context Store method documents for an unavailable store
DocumentedDefault(call) ==
    CASE call.op \in {"get_project_metadata", "get_schema", "get_ai_session"} -> PyNone
      [] call.op \in {"list_all_projects", "list_ai_sessions", "get_query_intents"} ->
            PyList(<<>>)
      [] call.op = "get_project_stats" -> StatsUnavailable(call.pid)
      [] call.op = "health_check" ->
            PyDict([status |-> "unavailable", message |-> "Redis connection failed"])
      [] OTHER -> PyBool(FALSE)

\* the backend was down when the call started, or failed during the call
BackendFailed(call) == ~call.upAtStart \/ call.failed

Served(call, result) ==
    /\ ~call.degraded
    /\ call.op = "health_check" => result.v.status = "healthy"

\* C6: a Context Store call made while the backend is reachable, and during
\* which it stays reachable, is served by the store whatever happened before,
\* unless the store itself rejects the command.
C6_ServedWhenReachable ==
    (/\ last.op \in StoreMethods
     /\ last.upAtStart
     /\ ~last.failed
     /\ last.err # "ResponseError")
        => Served(last, ret)

\* C8: no record of any stored intents list has a 'result' or a 'results'
\* field.
C8_NoResults ==
    \A p \in Pids :
        \A i \in 1..Len(StoredIntents(p)) :
            DOMAIN StoredIntents(p)[i] \cap {"result", "results"} = {}

\* C8 witness: the intents route stored a payload that carried results.
C8_Witness ==
    /\ last.op = "save_query_intent_route"
    /\ last.hadResults
    /\ ret = Http(200)
    /\ StoredIntents(last.pid) # <<>>

\* C7: a step that leaves a project's intents list in place leaves the
\* expiry deadline the list already has unchanged.
C7_TtlOnce ==
    [][\A p \in Pids :
          (IntentsKey(p) \in DOMAIN exp /\ IntentsKey(p) \in DOMAIN kv') =>
              (IntentsKey(p) \in DOMAIN exp' /\ exp'[IntentsKey(p)] = exp[IntentsKey(p)])]_vars

\* C7 witness: a later save_query_intent found less than the full lifetime
\* left on the list and left the deadline where it was.
C7_Witness ==
    /\ last.op = "save_query_intent"
    /\ ret = PyBool(TRUE)
    /\ last.ttlSeen > 0
    /\ last.ttlSeen < QUERY_INTENTS_TTL
    /\ exp[IntentsKey(last.pid)] - now = last.ttlSeen

(***************************************************************************)
(* Claims about the rewrite and the naming of physical tables              *)
(***************************************************************************)
RECURSIVE NextQuote(_, _)
\* the position of the first single quote of s at or after i, or 0
NextQuote(s, i) ==
    IF i > Len(s) THEN 0 ELSE IF Ch(s, i) = "'" THEN i ELSE NextQuote(s, i + 1)

RECURSIVE StringLiterals(_, _)
\* the contents of the single-quoted string literals of s from position i on
StringLiterals(s, i) ==
    LET a == NextQuote(s, i)
        b == IF a = 0 THEN 0 ELSE NextQuote(s, a + 1)
    IN  IF b = 0 THEN <<>>
        ELSE <<SubSeq(s, a + 1, b - 1)>> \o StringLiterals(s, b + 1)

\* C11: the rewrite leaves every string literal of the statement unchanged,
\* also one whose content equals a table name of the statement.
C11_LiteralsUnchanged ==
    "rewrite" \in nsDone => StringLiterals(nsRewritten, 1) = StringLiterals(nsQuery, 1)

\* C12: after table T was uploaded for project P, 'SELECT * FROM T' was
\* rewritten for P and the schema of P was discovered, the physical table
\* add_table_prefix(T, P) exists, the statement reads from it, and the listing
\* shows it with display name T.
C12_EndToEndNaming ==
    {"upload", "rewrite", "discover"} \subseteq nsDone =>
        LET physical == add_table_prefix(nsTable, nsPid)
        IN  /\ physical \in nsTables
            /\ nsRewritten = "SELECT * FROM " \o physical
            /\ [name |-> nsTable, actualName |-> physical] \in nsListing


(***************************************************************************)
(* The normalizing read of a project (server.py): get_project_or_error and *)
(* normalize_dialect                                                       *)
(***************************************************************************)
LegacyDialects == {"trino", "spark"}

\* project.get('dialect')
DialectOf(project) == IF "dialect" \in DOMAIN project THEN project["dialect"] ELSE ""

\* the project as the caller gets it, in ret; in val what the migration write
\* returned (PyNone when none was issued).  The caller ignores what the write
\* returned.
\* `if dialect in ['trino', 'spark']: if 'actualEngine' not in project:`
is_unmigrated(project) ==
    DialectOf(project) \in LegacyDialects /\ "actualEngine" \notin DOMAIN project

\* the updates of the migration write
migration_updates(dialect) ==
    [actualEngine |-> dialect, dialect |-> "analytics",
     migratedFrom |-> dialect, migratedAt |-> now]

\* the project normalize_dialect returns after a migration
migrated_view(project) ==
    DictUpdate(project, [dialect |-> "analytics", actualEngine |-> DialectOf(project)])

normalize_dialect(st, project) ==
    IF is_unmigrated(project)
    THEN LET u == update_project_metadata(st, project["id"],
                                          migration_updates(DialectOf(project)))
         IN  [u EXCEPT !.ret = PyDict(migrated_view(project)), !.val = u.ret]
    ELSE [st EXCEPT !.ret = PyDict(project), !.val = PyNone]

\* (project, None, None) is PyDict(project); (None, error, status) is Http(status)
get_project_or_error(st, project_id) ==
    IF project_id = "" THEN [st EXCEPT !.ret = Http(400), !.val = PyNone]
    ELSE LET g == get_project_metadata(st, project_id)
         IN  IF ~Truthy(g.ret) THEN [g EXCEPT !.ret = Http(404), !.val = PyNone]
             ELSE normalize_dialect(g, g.ret.v)

\* a request that starts with the normalizing read (discover_schema, upload_csv)
FetchProject(p, fuel) ==
    LET r == get_project_or_error(Begin(fuel), p)
    IN  Plain(r, [CallRecord("get_project_or_error", p, "", r) EXCEPT !.inner = r.val])

(***************************************************************************)
(* Specification SpecDialect: projects of every dialect are registered,    *)
(* updated and read through the normalizing read                           *)
(***************************************************************************)
\* what POST /api/context/project stores: the body as the client sent it
RegisteredProjects ==
    { [id |-> ThePid, name |-> "shop", dialect |-> d, database |-> "sales"] :
        d \in {"trino", "spark", "mysql", "analytics"} }
    \cup { [id |-> ThePid, name |-> "shop", dialect |-> "trino", database |-> "sales",
            actualEngine |-> "trino"] }

\* what PUT /api/context/project/<id> merges: the body as the client sent it
DialectUpdates == { [name |-> "renamed"], [dialect |-> "spark"] }

RegisterProject == \E project \in RegisteredProjects, fuel \in Fuels(3) : SaveProject(project, fuel)

ChangeProject == \E updates \in DialectUpdates, fuel \in Fuels(4) : UpdateProject(ThePid, updates, fuel)

GetProjectOrError == \E p \in {ThePid, ""}, fuel \in Fuels(6) : FetchProject(p, fuel)

NextDialect ==
    \/ RegisterProject
    \/ ChangeProject
    \/ GetProjectOrError
    \/ GetProjectMetadata
    \/ DeleteProject
    \/ Acknowledge
    \/ BackendDown
    \/ BackendUp

SpecDialect == Init /\ [][NextDialect]_vars

(***************************************************************************)
(* Claims about the normalizing read                                       *)
(***************************************************************************)
\* the metadata stored for project p
StoredProject(store, p) == JsonLoads(store[MetadataKey(p)])

\* C13: for a project stored with a legacy dialect, after a normalizing fetch
\* that the backend answered throughout, the stored metadata has dialect
\* 'analytics' and actualEngine equal to the legacy value it had; and a fetch
\* of a project whose stored dialect is 'analytics' issues no migration write.
C13_MigratedOnce ==
    [][ (Idle /\ last'.op = "get_project_or_error" /\ last'.pid = ThePid
         /\ last'.upAtStart /\ ~last'.failed /\ ret'.kind = "dict")
        => LET before == StoredProject(kv, ThePid)
               after == StoredProject(kv', ThePid)
           IN  /\ DialectOf(before) \in LegacyDialects
                    => /\ DialectOf(after) = "analytics"
                       /\ "actualEngine" \in DOMAIN after
                       /\ after["actualEngine"] = DialectOf(before)
               /\ DialectOf(before) = "analytics" => last'.inner = PyNone /\ kv' = kv
      ]_vars

\* C14: every project the normalizing read returns has a canonical dialect,
\* never 'trino' or 'spark'.
C14_NoLegacyDialectReturned ==
    (last.op = "get_project_or_error" /\ ret.kind = "dict")
        => DialectOf(ret.v) \notin LegacyDialects


(***************************************************************************)
(* Claims about unknown projects and missing keys                          *)
(***************************************************************************)
ReadMethods ==
    {"get_project_metadata", "get_schema", "get_ai_session", "get_query_intents"}

\* what a read returns when the backend answers and the key does not exist
NotFoundOutcome(op) == IF op = "get_query_intents" THEN PyList(<<>>) ELSE PyNone

\* C15: the outcome of a read of project metadata, schema, AI session or
\* intents when the store is unreachable differs from the outcome of the same
\* read when the key does not exist.
C15_UnavailableIsNotNotFound ==
    (last.op \in ReadMethods /\ BackendFailed(last)) => ret # NotFoundOutcome(last.op)


WriteMethods ==
    {"update_project_metadata", "save_schema", "save_ai_message", "save_query_intent"}

\* C16: for a project that has no registered metadata, update_project_metadata,
\* save_schema, save_ai_message and save_query_intent do not succeed and
\* create no key.
C16_NoImplicitCreation ==
    [][ (Idle /\ last'.op \in WriteMethods /\ MetadataKey(last'.pid) \notin DOMAIN kv)
        => /\ ret' # PyBool(TRUE)
           /\ DOMAIN kv' \subseteq DOMAIN kv
      ]_vars


(***************************************************************************)
(* Specification SpecUpdate: two projects are registered and updated with  *)
(* the bodies a client can send, while time passes                         *)
(***************************************************************************)
\* what PUT /api/context/project/<id> passes on: the body as the client sent it
ProjectUpdates ==
    { [name |-> "renamed"],
      [dialect |-> "mysql", owner |-> "ann"],
      [id |-> "p2", name |-> "moved"] }

RegisterAnyProject ==
    \E p \in Pids, fuel \in Fuels(3) :
        SaveProject([id |-> p, name |-> "shop", dialect |-> "analytics",
                     database |-> "sales"], fuel)

UpdateAnyProject ==
    \E p \in Pids, updates \in ProjectUpdates, fuel \in Fuels(4) :
        UpdateProject(p, updates, fuel)

NextUpdate ==
    \/ RegisterAnyProject
    \/ UpdateAnyProject
    \/ Tick
    \/ Acknowledge
    \/ BackendDown
    \/ BackendUp

SpecUpdate == Init /\ [][NextUpdate]_vars

\* C17: after a successful update_project_metadata(P, U) of an existing project
\* with stored record R, the stored record of P has U's value for every field
\* of U, R's value for every other field, and updatedAt is the time of the
\* update.
C17_MergeSemantics ==
    [][ (Idle /\ last'.op = "update_project_metadata" /\ ret' = PyBool(TRUE)
         /\ MetadataKey(last'.pid) \in DOMAIN kv)
        => LET R == StoredProject(kv, last'.pid)
               U == last'.arg.v
               after == StoredProject(kv', last'.pid)
           IN  /\ \A f \in DOMAIN U \ {"updatedAt"} : f \in DOMAIN after /\ after[f] = U[f]
               /\ \A f \in DOMAIN R \ (DOMAIN U \cup {"updatedAt"}) :
                      f \in DOMAIN after /\ after[f] = R[f]
               /\ "updatedAt" \in DOMAIN after /\ after["updatedAt"] = now
      ]_vars


(***************************************************************************)
(* Claims about deleting a project and listing its sessions                *)
(***************************************************************************)
\* the keys of the store under the root of project p
KeysUnder(store, p) == { k \in DOMAIN store : StartsWith(k, "project:" \o p \o ":") }

\* C18: after delete_project(P) returned True, no key under P's root exists:
\* no metadata, no schema, no session and no intents list.
C18_DeleteRemovesEverything ==
    (last.op = "delete_project" /\ ret = PyBool(TRUE)) => KeysUnder(kv, last.pid) = {}


(***************************************************************************)
(* Specification SpecDelete: projects whose IDs are arbitrary strings are  *)
(* registered, updated, read and deleted                                   *)
(***************************************************************************)
\* project IDs a client can register: POST /api/context/project takes any string
OpaqueIds == {"p1", "ab", "a[b]"}

RegisterOpaque ==
    \E p \in OpaqueIds, fuel \in Fuels(3) :
        SaveProject([id |-> p, name |-> "shop", dialect |-> "mysql", database |-> "sales"],
                    fuel)

RenameOpaque == \E p \in OpaqueIds, fuel \in Fuels(4) : UpdateProject(p, [name |-> "renamed"], fuel)

ReadOpaque == \E p \in OpaqueIds, fuel \in Fuels(3) : ReadProject(p, fuel)

DeleteOpaque == \E p \in OpaqueIds, fuel \in Fuels(4) : RemoveProject(p, fuel)

NextDelete ==
    \/ RegisterOpaque
    \/ RenameOpaque
    \/ ReadOpaque
    \/ DeleteOpaque
    \/ Acknowledge
    \/ BackendDown
    \/ BackendUp

SpecDelete == Init /\ [][NextDelete]_vars


(***************************************************************************)
(* Specification SpecSessions: one project opens more sessions than the    *)
(* listing returns, while time passes                                      *)
(***************************************************************************)
MaxSessions == 11

SessionName(i) == "s" \o (IF i < 10 THEN "0" ELSE "") \o ToString(i)

\* the session keys of project p in the store
SessionsOf(store, p) ==
    { k \in DOMAIN store : StartsWith(k, "project:" \o p \o ":ai:session:") }

\* KEYS returns the keys in the order of the store's hash table, which no
\* caller controls: of all orders, the order of creation and its reverse
SessionOrders ==
    { [i \in 1..MaxSessions |-> SessionKey(ThePid, SessionName(i))],
      [i \in 1..MaxSessions |-> SessionKey(ThePid, SessionName(MaxSessions + 1 - i))] }

\* the first message of the next session
OpenSession ==
    /\ Cardinality(SessionsOf(kv, ThePid)) < MaxSessions
    /\ AppendMessage(ThePid, SessionName(Cardinality(SessionsOf(kv, ThePid)) + 1), NoFailure)

\* one more message in the first session
ResumeSession ==
    /\ SessionKey(ThePid, SessionName(1)) \in DOMAIN kv
    /\ Len(JsonLoads(kv[SessionKey(ThePid, SessionName(1))]).messages) < MaxMsgs
    /\ AppendMessage(ThePid, SessionName(1), NoFailure)

ListRecentSessions ==
    /\ Idle
    /\ \E order \in SessionOrders : ListSessions(ThePid, order, NoFailure)

NextSessions ==
    \/ OpenSession
    \/ ResumeSession
    \/ ListRecentSessions
    \/ Tick
    \/ Acknowledge

SpecSessions == InitUp /\ [][NextSessions]_vars

\* the sessions of project p as they are stored
StoredSessions(p) == { JsonLoads(kv[k]) : k \in SessionsOf(kv, p) }

\* C19: for a project with more than MAX_AI_SESSIONS sessions, list_ai_sessions
\* returns exactly MAX_AI_SESSIONS entries, no omitted session has a later
\* lastMessageAt than a returned one, and every entry carries the message count
\* and the timestamps but no messages.
C19_MostRecentSessions ==
    (/\ last.op = "list_ai_sessions"
     /\ ~BackendFailed(last)
     /\ ret.kind = "list"
     /\ Cardinality(StoredSessions(last.pid)) > MAX_AI_SESSIONS)
    => LET returned == { ret.v[i] : i \in 1..Len(ret.v) }
           omitted == { s \in StoredSessions(last.pid) :
                          \A e \in returned : e.sessionId # s.sessionId }
       IN  /\ Len(ret.v) = MAX_AI_SESSIONS
           /\ \A s \in omitted, e \in returned : s.lastMessageAt <= e.lastMessageAt
           /\ \A e \in returned :
                  DOMAIN e = {"sessionId", "messageCount", "createdAt", "lastMessageAt"}


(***************************************************************************)
(* The execute endpoints (server.py).  The engine is outside the program:  *)
(* a request meets one of the outcomes the handler distinguishes.          *)
(***************************************************************************)
Engines == {"mysql", "postgresql", "trino", "spark"}

\* execute_mysql, execute_postgresql, execute_trino:
\*   rows       cursor.description is set, the rows are fetched
\*   affected   the statement ran and returned no rows
\*   engine     the driver's error (mysql.connector.Error, psycopg2.Error,
\*              TrinoQueryError / TrinoUserError / TrinoExternalError)
\*   exception  any other exception
\* execute_spark:
\*   result     the job printed its JSON result
\*   missing    FileNotFoundError (sparkscript.py, or the docker binary)
\*   copy       `docker cp` returned non-zero
\*   submit     spark-submit returned non-zero
\*   silent     the job printed nothing
\*   garbled    the output is not JSON
\*   exception  any other exception
Outcomes(engine) ==
    IF engine = "spark"
    THEN {"result", "missing", "copy", "submit", "silent", "garbled", "exception"}
    ELSE {"rows", "affected", "engine", "exception"}

\* the engine ran the statement
Executed(outcome) == outcome \in {"rows", "affected", "result"}

\* error_msg of the failure paths
ErrorMessage(engine, outcome) ==
    CASE outcome = "engine" ->
            Some((CASE engine = "mysql" -> "MySQL database error"
                    [] engine = "postgresql" -> "PostgreSQL database error"
                    [] OTHER -> "Trino query error") \o ": rejected")
      [] outcome = "missing" -> Some("Spark script file not found")
      [] outcome = "submit" -> Some("Spark execution failed: rejected")
      [] outcome = "garbled" -> Some("Failed to parse results: Expecting value")
      [] OTHER -> Some("Internal server error: failure")

\* the three handlers of the engines reached through a driver: every path of
\* the try block and both except clauses record before they return
execute_direct(st, engine, outcome, project_id, query, id) ==
    LET status == IF Executed(outcome) THEN 200 ELSE 500
    IN  IF project_id # ""
        THEN [save_query_intent_helper(st, project_id, query, Executed(outcome),
                  IF Executed(outcome) THEN Null ELSE ErrorMessage(engine, outcome),
                  Null, id)
                EXCEPT !.ret = Http(status)]
        ELSE [st EXCEPT !.ret = Http(status), !.val = PyNone]

\* execute_spark: the returns after a failed `docker cp` and after an empty
\* output come before any call of save_query_intent_helper
execute_spark(st, outcome, project_id, query, id) ==
    IF outcome \in {"copy", "silent"} THEN [st EXCEPT !.ret = Http(500), !.val = PyNone]
    ELSE execute_direct(st, "spark", outcome, project_id, query, id)

\* query = rewrite_query_with_prefix(query, project_id) when the request has a
\* project ID, then the handler of the engine
execute(st, engine, outcome, project_id, statement, order, id) ==
    LET query == IF project_id # ""
                 THEN rewrite_query_with_prefix(Strip(statement), project_id, order)
                 ELSE Strip(statement)
    IN  IF engine = "spark" THEN execute_spark(st, outcome, project_id, query, id)
        ELSE execute_direct(st, engine, outcome, project_id, query, id)

RECURSIVE CountQuotes(_)
CountQuotes(text) ==
    IF text = "" THEN 0 ELSE (IF Head(text) = "'" THEN 1 ELSE 0) + CountQuotes(Tail(text))

RECURSIVE ShellWord(_, _, _, _)
\* the word bash reads from position i of text: a single quote opens or closes
\* a quoted stretch and is dropped, whitespace outside quotes ends the word
\* (no statement modelled holds another character that is special to bash)
ShellWord(text, i, quoted, acc) ==
    IF i > Len(text) THEN acc
    ELSE IF Ch(text, i) = "'" THEN ShellWord(text, i + 1, ~quoted, acc)
    ELSE IF ~quoted /\ IsSpaceChar(Ch(text, i)) THEN acc
    ELSE ShellWord(text, i + 1, quoted, acc \o Ch(text, i))

\* sys.argv[1] of sparkscript.py when bash runs
\*   /opt/spark/bin/spark-submit <script> '<query>' 2>/dev/null
\* Null when bash rejects the command line (a quote is left open) and runs nothing
spark_submit_argument(query) ==
    IF CountQuotes(query) % 2 = 1 THEN Null
    ELSE Some(ShellWord("'" \o query \o "' 2>/dev/null", 1, FALSE, ""))

\* the text the engine is given on the path `outcome`, Null when the path ends
\* before the engine is called: cursor.execute(query), or spark.sql(sys.argv[1])
engine_text(engine, outcome, query) ==
    IF engine = "spark"
    THEN (IF outcome \in {"missing", "copy"} THEN Null ELSE spark_submit_argument(query))
    ELSE Some(query)

\* a command line that bash rejects ends with a non-zero return code
PathExists(engine, outcome, query) ==
    (engine = "spark" /\ spark_submit_argument(query) = Null)
        => outcome \in {"missing", "copy", "submit", "exception"}

\* POST /execute/<engine> for project p ("" when the request names none)
Execute(engine, outcome, p, statement, order, fuel) ==
    LET id == FreshId(nextId + 1)
        r == execute(Begin(fuel), engine, outcome, p, statement, order, id)
        query == IF p # "" THEN rewrite_query_with_prefix(Strip(statement), p, order)
                 ELSE Strip(statement)
        ok == Executed(outcome)
        recorded == r.val # PyNone
        ddl == recorded /\ ok /\ is_ddl_query(query)
        clean == up /\ ~r.down
        cached == SchemaKey(p) \in DOMAIN kv
        error_msg == IF ok THEN Null ELSE ErrorMessage(engine, outcome)
    IN  /\ PathExists(engine, outcome, query)
        /\ Ends(r, [CallRecord("execute", p, "", r) EXCEPT
                        !.inner = r.val, !.success = ok, !.ddl = is_ddl_query(query),
                        !.cached = cached,
                        !.arg = PyDict([engine |-> engine, outcome |-> outcome,
                                        statement |-> statement,
                                        handed |-> engine_text(engine, outcome, query)])])
        /\ IF recorded
           THEN IntentHistory(r, p, BuildIntent(id, query, ok, error_msg, Null))
           ELSE LogsAfter(r) /\ UNCHANGED <<nextId, nextMsg>>
        /\ ddlSince' = IF ddl
                       THEN [ddlSince EXCEPT ![p] =
                                [ran |-> TRUE, clean |-> @.clean \/ clean,
                                 cleanHit |-> @.cleanHit \/ (clean /\ cached)]]
                       ELSE ddlSince

(***************************************************************************)
(* Specification SpecExecute: statements are executed for a project on     *)
(* every engine and meet every outcome, while the backend fails and        *)
(* recovers                                                                *)
(***************************************************************************)
Statements == {"SELECT * FROM orders"}

ExecuteStatement ==
    /\ nextId < MaxIntents
    /\ \E engine \in Engines, p \in {ThePid, ""}, statement \in Statements :
          \E outcome \in Outcomes(engine),
             order \in IterationOrders(extract_tables_from_query(statement)),
             fuel \in IF p = "" THEN {NoFailure} ELSE Fuels(5) :
             Execute(engine, outcome, p, statement, order, fuel)

NextExecute ==
    \/ ExecuteStatement
    \/ GetQueryIntents
    \/ ClearQueryIntents
    \/ Acknowledge
    \/ BackendDown
    \/ BackendUp

SpecExecute == InitUp /\ [][NextExecute]_vars

\* C20: a request to an execute endpoint that carries a project ID and whose
\* execution fails on any path, made while the store is reachable, has saved
\* an intent with wasSuccessful = False and a non-empty error message at the
\* head of the project's history when the error response is returned.
C20_FailureRecordedFirst ==
    (/\ last.op = "execute"
     /\ last.pid # ""
     /\ ~last.success
     /\ last.upAtStart
     /\ ~last.failed)
    => /\ ret = Http(500)
       /\ last.inner = PyBool(TRUE)
       /\ StoredIntents(last.pid) # <<>>
       /\ LET recorded == StoredIntents(last.pid)[1]
          IN  /\ recorded.wasSuccessful = FALSE
              /\ recorded.errorMessage # Null
              /\ recorded.errorMessage # Some("")


(***************************************************************************)
(* Specification SpecRoute: statements with and without string literals    *)
(* are sent to every execute endpoint, with and without a project ID       *)
(***************************************************************************)
RoutedStatements ==
    { "SELECT * FROM orders",
      "SELECT a FROM orders WHERE b = 'x'",
      "INSERT INTO t VALUES ('a b')" }

MaxRouted == 1

RouteStatement ==
    /\ nextId < MaxRouted
    /\ \E engine \in Engines, p \in {ThePid, ""}, statement \in RoutedStatements :
          \E outcome \in Outcomes(engine),
             order \in IterationOrders(extract_tables_from_query(statement)),
             fuel \in IF p = "" THEN {NoFailure} ELSE Fuels(1) :
             Execute(engine, outcome, p, statement, order, fuel)

NextRoute ==
    \/ RouteStatement
    \/ Acknowledge
    \/ BackendUp

SpecRoute == InitUp /\ [][NextRoute]_vars

\* C21: on every execute endpoint the text given to the engine is
\* rewrite_query_with_prefix of the inbound statement for the request's
\* project.
C21_RewrittenTextReachesEngine ==
    (last.op = "execute" /\ last.arg.v.handed # Null)
    => \E order \in IterationOrders(extract_tables_from_query(Strip(last.arg.v.statement))) :
           last.arg.v.handed =
               Some(rewrite_query_with_prefix(Strip(last.arg.v.statement), last.pid, order))


(***************************************************************************)
(* Specification SpecDdl: the outcomes of schema-mutating statements in    *)
(* several spellings are recorded while the project's schema is cached     *)
(***************************************************************************)
\* <<statement, was_successful, error_msg>>
DdlExecutions ==
    { <<statement, TRUE, Null>> :
        statement \in { "CREATE TABLE t (id INT)",
                        "CREATE  TABLE t (id INT)",
                        "CREATE OR REPLACE VIEW v AS SELECT 1",
                        "CREATE TEMPORARY TABLE t (id INT)",
                        "CREATE UNIQUE INDEX i ON t (id)",
                        "SELECT * FROM orders" } }
    \cup { <<"DROP TABLE t", FALSE, Some("engine error")>> }

RecordDdl ==
    /\ nextId < MaxIntents
    /\ \E execution \in DdlExecutions, fuel \in Fuels(8) : Record(ThePid, execution, fuel)

NextDdl ==
    \/ RecordDdl
    \/ SaveSchema
    \/ GetSchema
    \/ Acknowledge
    \/ BackendDown
    \/ BackendUp

SpecDdl == InitUp /\ [][NextDdl]_vars

\* the first word of the statement, in upper case
LeadingKeyword(statement) ==
    LET text == ToUpper(Strip(statement)) IN SubSeq(text, 1, SkipWord(text, 1) - 1)

\* a statement of the CREATE / ALTER / DROP / TRUNCATE / RENAME family
SchemaMutating(statement) ==
    LeadingKeyword(statement) \in {"CREATE", "ALTER", "DROP", "TRUNCATE", "RENAME"}

\* C22: after the outcome of a successfully executed statement of the CREATE /
\* ALTER / DROP / TRUNCATE / RENAME family was recorded for a project, with the
\* store reachable during the call, the project has no cached schema.
C22_NoFalseNegative ==
    (/\ last.op = "save_query_intent_helper"
     /\ last.success
     /\ SchemaMutating(last.arg.v.statement)
     /\ last.upAtStart
     /\ ~last.failed)
    => SchemaKey(last.pid) \notin DOMAIN kv


(***************************************************************************)
(* Concurrent callers.  The server handles requests in threads, so two     *)
(* Context Store calls interleave at their round trips to the store: an    *)
(* action below is one round trip of one caller, with the work the caller  *)
(* does on its own locals before the next one.                             *)
(***************************************************************************)
MaxRaceCalls == 4

\* one round trip of caller c: the store becomes r's, the call becomes record
Round(c, r, record) ==
    /\ Idle
    /\ kv' = r.kv
    /\ exp' = r.exp
    /\ calls' = [calls EXCEPT ![c] =
                    IF calls[c].pc = "idle"
                    THEN [record EXCEPT !.peers = [d \in Callers |-> calls[d].pc]]
                    ELSE record]
    /\ UNCHANGED <<adapterVars, now, ret, last, nsVars>>

\* the caller takes the value its call returned
Returns(c) ==
    /\ calls[c].pc = "done"
    /\ calls' = [calls EXCEPT ![c] = NoFlight]
    /\ UNCHANGED <<adapterVars, storeVars, ret, last, historyVars, nsVars>>

\* save_ai_message up to and including `data = self.redis.get(key)`
SaveMessageReads(c, p, s) ==
    LET key == SessionKey(p, s)
        message == [role |-> "user", content |-> FreshId(nextMsg + 1), timestamp |-> now]
        a == is_available(Begin(NoFailure))
        g == Get(a, key)
    IN  /\ calls[c].pc = "idle"
        /\ nextMsg < MaxRaceCalls
        /\ a.avail
        /\ Round(c, g, [NoFlight EXCEPT
                          !.op = "save_ai_message", !.pc = "setex", !.pid = p, !.sid = s,
                          !.input = PyDict(message),
                          !.seen = IF g.val.found THEN Some(g.val.data) ELSE Null,
                          !.behind = Len(msgLog[key])])
        /\ nextMsg' = nextMsg + 1
        /\ UNCHANGED <<ticks, nextId, intentLog, msgLog, ddlSince>>

\* the session a save_ai_message in flight built from what it read
SessionInHand(call) ==
    session_with_message(
        session_or_new(call.seen # Null, IF call.seen # Null THEN call.seen[1] ELSE Null,
                       call.sid),
        call.input.v)

\* save_ai_message from the append to `return True`: the SETEX of the session
\* built from what the call read
SaveMessagePersists(c) ==
    LET call == calls[c]
        key == SessionKey(call.pid, call.sid)
        r == Return(Setex(Begin(NoFailure), key, AI_CONTEXT_TTL,
                          JsonDumps(SessionInHand(call))), PyBool(TRUE))
    IN  /\ call.op = "save_ai_message"
        /\ call.pc = "setex"
        /\ Round(c, r, [call EXCEPT !.pc = "done", !.ret = r.ret])
        /\ msgLog' = [msgLog EXCEPT ![key] = Append(@, call.input.v)]
        /\ UNCHANGED <<ticks, nextId, nextMsg, intentLog, ddlSince>>

(***************************************************************************)
(* Specification SpecMessageRace: two callers append messages to sessions  *)
(***************************************************************************)
MessageReads ==
    /\ Idle
    /\ \E c \in Callers, p \in Pids : SaveMessageReads(c, p, TheSid)

MessagePersists ==
    /\ Idle
    /\ \E c \in Callers : SaveMessagePersists(c)

CallReturns ==
    /\ Idle
    /\ \E c \in Callers : Returns(c)

NextMessageRace ==
    \/ MessageReads
    \/ MessagePersists
    \/ CallReturns

SpecMessageRace == InitUp /\ [][NextMessageRace]_vars

\* the place of message m in the writes to a key
PlaceIn(log, m) == CHOOSE i \in 1..Len(log) : log[i] = m

InMessages(session, m) == \E i \in 1..Len(session.messages) : session.messages[i] = m

\* c and d appended to the same session, c persisted first, and both had read
\* the session before c persisted
ReadBeforeEitherPersisted(c, d) ==
    /\ c # d
    /\ calls[c].op = "save_ai_message" /\ calls[c].pc = "done"
    /\ calls[d].op = "save_ai_message" /\ calls[d].pc = "done"
    /\ calls[c].pid = calls[d].pid /\ calls[c].sid = calls[d].sid
    /\ LET log == msgLog[SessionKey(calls[c].pid, calls[c].sid)]
       IN  /\ PlaceIn(log, calls[c].input.v) < PlaceIn(log, calls[d].input.v)
           /\ calls[c].behind < PlaceIn(log, calls[c].input.v)
           /\ calls[d].behind < PlaceIn(log, calls[c].input.v)

\* C23: when two save_ai_message calls on one session both read before either
\* persists, then once both are complete the stored session is the one the later
\* persist wrote: what that call read plus its own message, without the message
\* of the earlier persist; and both calls returned True.
C23_LastWriterWins ==
    \A c, d \in Callers :
        ReadBeforeEitherPersisted(c, d)
        => LET key == SessionKey(calls[d].pid, calls[d].sid)
           IN  /\ key \in DOMAIN kv
               /\ kv[key] = JsonDumps(SessionInHand(calls[d]))
               /\ InMessages(JsonLoads(kv[key]), calls[d].input.v)
               /\ ~InMessages(JsonLoads(kv[key]), calls[c].input.v)
               /\ Len(JsonLoads(kv[key]).messages)
                      = Min(MAX_AI_MESSAGES,
                            1 + (IF calls[d].seen = Null THEN 0
                                 ELSE Len(JsonLoads(calls[d].seen[1]).messages)))
               /\ calls[c].ret = PyBool(TRUE)
               /\ calls[d].ret = PyBool(TRUE)

C23_Witness == \E c, d \in Callers : ReadBeforeEitherPersisted(c, d)


(***************************************************************************)
(* Specification SpecIntentRace: intents are saved one call at a time      *)
(* until the list is one short of MAX_QUERY_INTENTS; from then on two      *)
(* callers save and read at the same time                                  *)
(***************************************************************************)
NoneInFlight == \A c \in Callers : calls[c].pc = "idle"

NearlyFull(p) == Len(ListAt(Begin(NoFailure), IntentsKey(p))) >= MAX_QUERY_INTENTS - 1

\* save_query_intent up to and including `self.redis.lpush(key, json.dumps(intent))`
SaveIntentPushes(c, p) ==
    LET intent == [id |-> FreshId(nextId + 1), sqlQuery |-> "SELECT 1", executedAt |-> now]
        a == is_available(Begin(NoFailure))
        r == Lpush(a, IntentsKey(p), JsonDumps(intent))
    IN  /\ calls[c].pc = "idle"
        /\ a.avail
        /\ Round(c, r, [NoFlight EXCEPT !.op = "save_query_intent", !.pc = "ltrim",
                                        !.pid = p, !.input = PyDict(intent)])
        /\ nextId' = nextId + 1
        /\ UNCHANGED <<ticks, nextMsg, intentLog, msgLog, ddlSince>>

\* `self.redis.ltrim(key, 0, MAX_QUERY_INTENTS - 1)`
SaveIntentTrims(c) ==
    LET call == calls[c]
        r == TrimIntents(Begin(NoFailure), IntentsKey(call.pid))
    IN  /\ call.op = "save_query_intent"
        /\ call.pc = "ltrim"
        /\ Round(c, r, [call EXCEPT !.pc = "ttl"])
        /\ UNCHANGED historyVars

\* `self.redis.ttl(key)`
SaveIntentReadsTtl(c) ==
    LET call == calls[c]
        r == Ttl(Begin(NoFailure), IntentsKey(call.pid))
    IN  /\ call.op = "save_query_intent"
        /\ call.pc = "ttl"
        /\ Round(c, r, [call EXCEPT !.pc = "expire", !.seen = Some(r.val)])
        /\ UNCHANGED historyVars

\* `if ... == -1: self.redis.expire(key, QUERY_INTENTS_TTL)`, then `return True`
SaveIntentExpires(c) ==
    LET call == calls[c]
        t == [Begin(NoFailure) EXCEPT !.val = call.seen[1]]
        r == Return(SetTtlOnce(t, IntentsKey(call.pid)), PyBool(TRUE))
    IN  /\ call.op = "save_query_intent"
        /\ call.pc = "expire"
        /\ Round(c, r, [call EXCEPT !.pc = "done", !.ret = r.ret])
        /\ UNCHANGED historyVars

\* get_query_intents: one LRANGE
IntentsRead(c, p, limit) ==
    LET a == is_available(Begin(NoFailure))
        r == get_query_intents_operation(a, p, limit)
    IN  /\ calls[c].pc = "idle"
        /\ a.avail
        /\ Round(c, r, [NoFlight EXCEPT !.op = "get_query_intents", !.pc = "done",
                                        !.pid = p, !.input = PyDict([limit |-> limit]),
                                        !.ret = r.ret])
        /\ UNCHANGED historyVars

\* the limits of the readers: the default, and a larger one
RaceLimits == {MAX_QUERY_INTENTS, 2 * MAX_QUERY_INTENTS}

FillIntents ==
    /\ NoneInFlight
    /\ ~NearlyFull(ThePid)
    /\ StoreIntent(ThePid, NoFailure)

IntentPushes ==
    /\ nextId < CapIntents
    /\ NearlyFull(ThePid)
    /\ \E c \in Callers : SaveIntentPushes(c, ThePid)

IntentTrims ==
    /\ Idle
    /\ \E c \in Callers : SaveIntentTrims(c)

IntentReadsTtl ==
    /\ Idle
    /\ \E c \in Callers : SaveIntentReadsTtl(c)

IntentExpires ==
    /\ Idle
    /\ \E c \in Callers : SaveIntentExpires(c)

IntentReads ==
    /\ NearlyFull(ThePid)
    /\ \E c \in Callers, limit \in RaceLimits : IntentsRead(c, ThePid, limit)

NextIntentRace ==
    \/ FillIntents
    \/ Acknowledge
    \/ IntentPushes
    \/ IntentTrims
    \/ IntentReadsTtl
    \/ IntentExpires
    \/ IntentReads
    \/ CallReturns

SpecIntentRace == InitUp /\ [][NextIntentRace]_vars

\* C24: in every state, the states between the round trips of concurrent
\* save_query_intent calls included, the intents list of a project holds at most
\* MAX_QUERY_INTENTS entries, and no get_query_intents, whatever its limit,
\* returned more than MAX_QUERY_INTENTS entries.
C24_IntentCapAlways ==
    /\ \A p \in Pids :
           IntentsKey(p) \in DOMAIN kv => Len(kv[IntentsKey(p)]) <= MAX_QUERY_INTENTS
    /\ \A c \in Callers :
           (calls[c].op = "get_query_intents" /\ calls[c].pc = "done")
           => Len(calls[c].ret.v) <= MAX_QUERY_INTENTS


(***************************************************************************)
(* Specification SpecMigrationRace: two callers fetch legacy projects      *)
(* through get_project_or_error at the same time                           *)
(***************************************************************************)
\* the legacy projects and the dialect each was registered with
LegacyProjects ==
    { [id |-> "p1", name |-> "shop", dialect |-> "trino", database |-> "sales"],
      [id |-> "p2", name |-> "lake", dialect |-> "spark", database |-> "events"] }

RegisteredDialect(p) == IF p = "p1" THEN "trino" ELSE "spark"

\* get_project_or_error up to normalize_dialect's test: the GET of
\* get_project_metadata, then 404, the project as it is, or the migration
FetchReads(c, p) ==
    LET a == is_available(Begin(NoFailure))
        g == ReadJson(a, MetadataKey(p))
        fetch == [NoFlight EXCEPT !.op = "get_project_or_error", !.pid = p]
    IN  /\ calls[c].pc = "idle"
        /\ a.avail
        /\ Round(c, g,
                 IF ~Truthy(g.ret) THEN [fetch EXCEPT !.pc = "done", !.ret = Http(404)]
                 ELSE IF is_unmigrated(g.ret.v)
                 THEN [fetch EXCEPT !.pc = "update_get",
                                    !.input = PyDict(migration_updates(DialectOf(g.ret.v))),
                                    !.ret = PyDict(migrated_view(g.ret.v))]
                 ELSE [fetch EXCEPT !.pc = "done", !.ret = g.ret])
        /\ UNCHANGED historyVars

\* update_project_metadata's `project = self.get_project_metadata(project_id)`
UpdateReads(c) ==
    LET call == calls[c]
        g == ReadJson(is_available(Begin(NoFailure)), MetadataKey(call.pid))
    IN  /\ call.pc = "update_get"
        /\ Round(c, g, IF Truthy(g.ret)
                       THEN [call EXCEPT !.pc = "update_set", !.seen = Some(g.ret.v)]
                       ELSE [call EXCEPT !.pc = "done"])
        /\ UNCHANGED historyVars

\* update_project_metadata's merge and `self.save_project_metadata(project)`
UpdateWrites(c) ==
    LET call == calls[c]
        r == save_project_metadata(Begin(NoFailure),
                                   merged_project(call.seen[1], call.input.v))
    IN  /\ call.pc = "update_set"
        /\ Round(c, r, [call EXCEPT !.pc = "done"])
        /\ UNCHANGED historyVars

RegisterLegacy ==
    /\ NoneInFlight
    /\ \E project \in LegacyProjects :
           /\ MetadataKey(project.id) \notin DOMAIN kv
           /\ SaveProject(project, NoFailure)

ProjectFetched ==
    /\ Idle
    /\ \E c \in Callers, p \in Pids : FetchReads(c, p)

MigrationReads ==
    /\ Idle
    /\ \E c \in Callers : calls[c].op = "get_project_or_error" /\ UpdateReads(c)

MigrationWrites ==
    /\ Idle
    /\ \E c \in Callers : calls[c].op = "get_project_or_error" /\ UpdateWrites(c)

NextMigrationRace ==
    \/ RegisterLegacy
    \/ Acknowledge
    \/ ProjectFetched
    \/ MigrationReads
    \/ MigrationWrites
    \/ CallReturns

SpecMigrationRace == InitUp /\ [][NextMigrationRace]_vars

\* caller c issues the write of a migration in this step
IssuesMigrationWrite(c) ==
    /\ calls[c].op = "get_project_or_error"
    /\ calls[c].pc = "update_set"
    /\ calls'[c].pc = "done"

\* C25: under concurrent first reads of a legacy project the migration write is
\* issued at most once (never for a project that was already migrated), and the
\* stored actualEngine is the dialect the project was registered with.
C25_MigratesOnce ==
    /\ [][ \A c \in Callers :
               IssuesMigrationWrite(c)
               => "actualEngine" \notin DOMAIN StoredProject(kv, calls[c].pid) ]_vars
    /\ [](\A p \in Pids :
              (MetadataKey(p) \in DOMAIN kv /\ "actualEngine" \in DOMAIN StoredProject(kv, p))
              => StoredProject(kv, p)["actualEngine"] = RegisteredDialect(p))


(***************************************************************************)
(* Specification SpecDiscoveryRace: a schema discovery and the execution   *)
(* of DDL statements for one project run at the same time.  nsTables is    *)
(* the set of tables of the SQL engine.                                    *)
(***************************************************************************)
ShopProject == [id |-> ThePid, name |-> "shop", dialect |-> "mysql", database |-> "sales"]

DdlStatements == {"CREATE TABLE t (id INT)", "DROP TABLE t"}

\* the tables of the engine after it ran a CREATE TABLE or DROP TABLE statement
EngineAfter(tables, query) ==
    IF StartsWith(ToUpper(query), "CREATE TABLE")
    THEN tables \cup extract_tables_from_query(query)
    ELSE tables \ extract_tables_from_query(query)

\* the statement changes the engine's tables, so the engine reports success
EngineAccepts(tables, query) == EngineAfter(tables, query) # tables

\* discover_schema up to its cache check: get_project_or_error, then get_schema
\* unless forceRefresh
DiscoveryChecksCache(c, p, force_refresh) ==
    LET a == Begin(NoFailure)
        g == get_project_or_error(a, p)
        s == get_schema(g, p)
        discovery == [NoFlight EXCEPT !.op = "discover_schema", !.pid = p]
    IN  /\ calls[c].pc = "idle"
        /\ Round(c, IF g.ret.kind = "http" THEN g ELSE s,
                 IF g.ret.kind = "http" THEN [discovery EXCEPT !.pc = "done", !.ret = g.ret]
                 ELSE IF ~force_refresh /\ Truthy(s.ret)
                 THEN [discovery EXCEPT !.pc = "done", !.ret = s.ret]
                 ELSE [discovery EXCEPT !.pc = "list", !.input = g.ret])
        /\ UNCHANGED <<historyVars>>

\* the listing of the engine's tables, filtered by the project's prefix
DiscoveryListsTables(c) ==
    LET call == calls[c]
    IN  /\ call.op = "discover_schema"
        /\ call.pc = "list"
        /\ calls' = [calls EXCEPT ![c] =
                        [call EXCEPT !.pc = "save",
                                     !.seen = Some(discover_tables(nsTables, call.pid))]]
        /\ UNCHANGED <<adapterVars, storeVars, ret, last, historyVars, nsVars>>

\* the schema_data discover_schema builds from its listing
schema_data(call) ==
    [tables |-> call.seen[1], isDiscovered |-> TRUE,
     dialect |-> DialectOf(call.input.v), database |-> call.input.v["database"]]

\* `success = context_mgr.save_schema(project_id, schema_data, ttl=3600)`
DiscoverySavesSchema(c) ==
    LET call == calls[c]
        r == save_schema(Begin(NoFailure), call.pid, schema_data(call), SCHEMA_TTL)
    IN  /\ call.op = "discover_schema"
        /\ call.pc = "save"
        /\ Round(c, r, [call EXCEPT !.pc = "done", !.ret = PyDict(schema_data(call))])
        /\ UNCHANGED <<historyVars>>

\* an execute endpoint up to and including `cursor.execute(query)`
DdlExecutes(c, p, statement) ==
    \E order \in IterationOrders(extract_tables_from_query(Strip(statement))) :
        LET query == rewrite_query_with_prefix(Strip(statement), p, order)
        IN  /\ calls[c].pc = "idle"
            /\ EngineAccepts(nsTables, query)
            /\ nsTables' = EngineAfter(nsTables, query)
            /\ calls' = [calls EXCEPT ![c] =
                            [NoFlight EXCEPT !.op = "execute", !.pc = "record", !.pid = p,
                                             !.input = PyDict([query |-> query])]]
            /\ UNCHANGED <<adapterVars, storeVars, ret, last, historyVars,
                           nsKind, nsQuery, nsPid, nsTable, nsRewritten, nsPrefixed,
                           nsTwice, nsDisplay, nsDone, nsListing>>

\* the endpoint's save_query_intent_helper(project_id, query, ..., True)
DdlRecorded(c) ==
    LET call == calls[c]
        r == save_query_intent_helper(Begin(NoFailure), call.pid, call.input.v.query,
                                      TRUE, Null, Null, FreshId(nextId + 1))
    IN  /\ call.op = "execute"
        /\ call.pc = "record"
        /\ Round(c, r, [call EXCEPT !.pc = "done", !.ret = Http(200)])
        /\ nextId' = nextId + 1
        /\ UNCHANGED <<ticks, nextMsg, intentLog, msgLog, ddlSince>>

RegisterShop ==
    /\ NoneInFlight
    /\ MetadataKey(ThePid) \notin DOMAIN kv
    /\ SaveProject(ShopProject, NoFailure)

DiscoveryStarts ==
    /\ Idle
    /\ \E c \in Callers, force_refresh \in BOOLEAN :
           DiscoveryChecksCache(c, ThePid, force_refresh)

DiscoveryLists ==
    /\ Idle
    /\ \E c \in Callers : DiscoveryListsTables(c)

DiscoverySaves ==
    /\ Idle
    /\ \E c \in Callers : DiscoverySavesSchema(c)

DdlStarts ==
    /\ Idle
    /\ nextId + Cardinality({ c \in Callers : calls[c].op = "execute" }) < MaxIntents
    /\ \E c \in Callers, statement \in DdlStatements : DdlExecutes(c, ThePid, statement)

DdlEnds ==
    /\ Idle
    /\ \E c \in Callers : DdlRecorded(c)

NextDiscoveryRace ==
    \/ RegisterShop
    \/ Acknowledge
    \/ DiscoveryStarts
    \/ DiscoveryLists
    \/ DiscoverySaves
    \/ DdlStarts
    \/ DdlEnds
    \/ CallReturns

SpecDiscoveryRace == InitUp /\ [][NextDiscoveryRace]_vars

\* C26: once a discovery and a DDL execution that ran at the same time are both
\* complete, a cached schema of the project lists the tables the engine has now,
\* never the tables it had before the DDL took effect.
C26_NoStaleSchemaAfterDdl ==
    \A p \in Pids :
        (/\ \A c \in Callers : calls[c].pc \in {"idle", "done"}
         /\ SchemaKey(p) \in DOMAIN kv)
        => JsonLoads(kv[SchemaKey(p)]).tables = discover_tables(nsTables, p)


(***************************************************************************)
(* Specification SpecDeleteRace: a project is deleted while another caller *)
(* writes to it                                                            *)
(***************************************************************************)
\* delete_project up to and including `keys = self.redis.keys(pattern)`
DeleteScans(c, p) ==
    LET a == is_available(Begin(NoFailure))
        k == Keys(a, "project:" \o p \o ":*")
        deletion == [NoFlight EXCEPT !.op = "delete_project", !.pid = p]
    IN  /\ calls[c].pc = "idle"
        /\ a.avail
        /\ Round(c, k, IF k.val # {}
                       THEN [deletion EXCEPT !.pc = "del", !.seen = Some(k.val)]
                       ELSE [deletion EXCEPT !.pc = "done", !.ret = PyBool(TRUE)])
        /\ UNCHANGED historyVars

\* `self.redis.delete(*keys)`, then `return True`
DeleteRemoves(c) ==
    LET call == calls[c]
        r == Return(Delete(Begin(NoFailure), call.seen[1]), PyBool(TRUE))
    IN  /\ call.op = "delete_project"
        /\ call.pc = "del"
        /\ Round(c, r, [call EXCEPT !.pc = "done", !.ret = r.ret])
        /\ UNCHANGED historyVars

\* update_project_metadata up to its operation: the is_available of _safe_operation
UpdateBegins(c, p, updates) ==
    LET a == is_available(Begin(NoFailure))
    IN  /\ calls[c].pc = "idle"
        /\ a.avail
        /\ Round(c, a, [NoFlight EXCEPT !.op = "update_project_metadata",
                                        !.pc = "update_get", !.pid = p,
                                        !.input = PyDict(updates), !.ret = PyBool(FALSE)])
        /\ UNCHANGED historyVars

\* save_schema up to its operation: the is_available of _safe_operation
SaveSchemaBegins(c, p, schema) ==
    LET a == is_available(Begin(NoFailure))
    IN  /\ calls[c].pc = "idle"
        /\ a.avail
        /\ Round(c, a, [NoFlight EXCEPT !.op = "save_schema", !.pc = "setex", !.pid = p,
                                        !.input = PyDict(schema)])
        /\ UNCHANGED historyVars

\* save_schema's SETEX, then `return True`
SaveSchemaPersists(c) ==
    LET call == calls[c]
        a == [Begin(NoFailure) EXCEPT !.avail = TRUE]
        r == save_schema_operation(a, call.pid, call.input.v, SCHEMA_TTL)
    IN  /\ call.op = "save_schema"
        /\ call.pc = "setex"
        /\ Round(c, r, [call EXCEPT !.pc = "done", !.ret = r.ret])
        /\ UNCHANGED historyVars

\* the messages and intents saved in SpecDeleteRace
MaxRaceWrites == 1

DeleteStarts ==
    /\ Idle
    /\ \E c \in Callers : DeleteScans(c, ThePid)

DeleteEnds ==
    /\ Idle
    /\ \E c \in Callers : DeleteRemoves(c)

RenameStarts ==
    /\ Idle
    /\ \E c \in Callers : UpdateBegins(c, ThePid, [name |-> "renamed"])

RenameReads ==
    /\ Idle
    /\ \E c \in Callers : calls[c].op = "update_project_metadata" /\ UpdateReads(c)

RenameWrites ==
    /\ Idle
    /\ \E c \in Callers :
           /\ calls[c].op = "update_project_metadata"
           /\ UpdateWrites(c)

SchemaSaveStarts ==
    /\ Idle
    /\ \E c \in Callers, schema \in Schemas : SaveSchemaBegins(c, ThePid, schema)

SchemaSaveEnds ==
    /\ Idle
    /\ \E c \in Callers : SaveSchemaPersists(c)

MessageSaveStarts ==
    /\ nextMsg + nextId < MaxRaceWrites
    /\ \E c \in Callers : SaveMessageReads(c, ThePid, TheSid)

IntentSaveStarts ==
    /\ nextMsg + nextId < MaxRaceWrites
    /\ \E c \in Callers : SaveIntentPushes(c, ThePid)

NextDeleteRace ==
    \/ RegisterShop
    \/ Acknowledge
    \/ DeleteStarts
    \/ DeleteEnds
    \/ RenameStarts
    \/ RenameReads
    \/ RenameWrites
    \/ SchemaSaveStarts
    \/ SchemaSaveEnds
    \/ MessageSaveStarts
    \/ MessagePersists
    \/ IntentSaveStarts
    \/ IntentTrims
    \/ IntentReadsTtl
    \/ IntentExpires
    \/ CallReturns

SpecDeleteRace == InitUp /\ [][NextDeleteRace]_vars

ProjectWriters ==
    {"save_query_intent", "save_ai_message", "save_schema", "update_project_metadata"}

\* d's write to the project of c's delete_project started before the delete and
\* was still running when the delete started; both calls are complete
DeletedUnderWriter(c, d) ==
    /\ calls[c].op = "delete_project" /\ calls[c].pc = "done"
    /\ calls[d].op \in ProjectWriters /\ calls[d].pc = "done"
    /\ calls[d].pid = calls[c].pid
    /\ calls[d].peers[c] = "idle"
    /\ calls[c].peers[d] \notin {"idle", "done"}

\* C27: when a delete_project ran concurrently with a save_query_intent,
\* save_ai_message, save_schema or update_project_metadata for the same project
\* that had started before it, then once both are complete no key under the
\* project's namespace exists.
C27_DeletionNotUndone ==
    \A c, d \in Callers :
        DeletedUnderWriter(c, d) => KeysUnder(kv, calls[c].pid) = {}


(***************************************************************************)
(* The rewrite and the shape of the statement (specification SpecNS)       *)
(***************************************************************************)
CreateIfNotExists == "CREATE TABLE IF NOT EXISTS "

\* the identifier that starts at position i of s
WordAt(s, i) == SubSeq(s, i, SkipWord(s, i) - 1)

From(s, i) == SubSeq(s, i, Len(s))

\* the statement is CREATE TABLE IF NOT EXISTS t ..., for an identifier t
IsCreateIfNotExists(query) ==
    /\ StartsWith(ToUpper(query), CreateIfNotExists)
    /\ WordAt(query, Len(CreateIfNotExists) + 1) # ""

\* C28: for a statement CREATE TABLE IF NOT EXISTS t (...), extraction returns t
\* and does not return IF, and the rewrite prefixes t and leaves the keywords
\* IF NOT EXISTS as they are.
C28_IfNotExistsKept ==
    ("rewrite" \in nsDone /\ IsCreateIfNotExists(nsQuery))
    => LET at == Len(CreateIfNotExists) + 1
           t == WordAt(nsQuery, at)
       IN  /\ t \in extract_tables_from_query(nsQuery)
           /\ \A name \in extract_tables_from_query(nsQuery) : ToUpper(name) # "IF"
           /\ nsRewritten = SubSeq(nsQuery, 1, at - 1) \o add_table_prefix(t, nsPid)
                                \o From(nsQuery, at + Len(t))


\* the table names of `names` that are word w, ignoring case
NamesOf(names, w) == { t \in names : ToUpper(t) = ToUpper(w) }

RECURSIVE TokenSafe(_, _, _, _)
\* text `after` is text `before` with every identifier that is one of `names`
\* (ignoring case) replaced by the prefixed name, and everything else, the
\* identifiers that merely contain a name included, left as it is
TokenSafe(before, after, names, project_id) ==
    IF before = "" THEN after = ""
    ELSE IF ~IsWordChar(Ch(before, 1))
    THEN /\ after # ""
         /\ Ch(after, 1) = Ch(before, 1)
         /\ TokenSafe(From(before, 2), From(after, 2), names, project_id)
    ELSE LET w == WordAt(before, 1)
             rest == From(before, Len(w) + 1)
         IN  IF NamesOf(names, w) = {}
             THEN /\ StartsWith(after, w)
                  /\ TokenSafe(rest, From(after, Len(w) + 1), names, project_id)
             ELSE \E t \in NamesOf(names, w) :
                      /\ StartsWith(after, add_table_prefix(t, project_id))
                      /\ TokenSafe(rest,
                                   From(after, Len(add_table_prefix(t, project_id)) + 1),
                                   names, project_id)

\* C29: the rewrite replaces the whole-identifier occurrences of every extracted
\* table name by add_table_prefix of that name, and leaves every other
\* identifier, those that contain a table name as a proper substring included,
\* and every other character unchanged.
C29_TokenSafeSubstitution ==
    "rewrite" \in nsDone
    => TokenSafe(nsQuery, nsRewritten, extract_tables_from_query(nsQuery), nsPid)


SelectAllFrom == "SELECT * FROM "

\* the three parts of the identifier catalog.schema.table that ends statement s
\* after SELECT * FROM, or <<>> when s is not of that form
QualifiedParts(s) ==
    LET a == Len(SelectAllFrom) + 1
        catalog == WordAt(s, a)
        b == a + Len(catalog) + 1
        schema == WordAt(s, b)
        c == b + Len(schema) + 1
        table == WordAt(s, c)
    IN  IF /\ StartsWith(s, SelectAllFrom)
           /\ catalog # "" /\ schema # "" /\ table # ""
           /\ s = SelectAllFrom \o catalog \o "." \o schema \o "." \o table
        THEN <<catalog, schema, table>>
        ELSE <<>>

\* C30: for a statement that reads from catalog.schema.table, the rewrite leaves
\* the catalog and the schema as they are and prefixes only the table part.
C30_QualifiersKept ==
    ("rewrite" \in nsDone /\ QualifiedParts(nsQuery) # <<>>)
    => LET parts == QualifiedParts(nsQuery)
       IN  nsRewritten = SelectAllFrom \o parts[1] \o "." \o parts[2] \o "."
                             \o add_table_prefix(parts[3], nsPid)


(***************************************************************************)
(* Specification SpecSessionTtl: messages are appended to one session      *)
(* while time passes and the backend fails and recovers                    *)
(***************************************************************************)
\* the clock steps of a session's life: an hour, and the session's whole lifetime
SessionTickSteps == {SCHEMA_TTL, AI_CONTEXT_TTL}

SaveAIMessageInTime ==
    /\ nextMsg < MaxMsgs
    /\ \E fuel \in Fuels(4) : AppendMessage(ThePid, TheSid, fuel)

SessionTick ==
    /\ ticks < MaxTicks
    /\ \E d \in SessionTickSteps : Passes(d)

NextSessionTtl ==
    \/ SaveAIMessageInTime
    \/ GetAISession
    \/ SessionTick
    \/ Acknowledge
    \/ BackendDown
    \/ BackendUp

SpecSessionTtl == Init /\ [][NextSessionTtl]_vars

\* C31: right after every successful save_ai_message the session key's remaining
\* lifetime is the full AI_CONTEXT_TTL, whatever it was before the call.
C31_SessionTtlRefreshed ==
    (last.op = "save_ai_message" /\ ret = PyBool(TRUE))
    => LET key == SessionKey(last.pid, last.sid)
       IN  /\ key \in DOMAIN kv
           /\ key \in DOMAIN exp
           /\ exp[key] - now = AI_CONTEXT_TTL

\* C31 witness: a successful append to a session that was created earlier and
\* had part of its lifetime behind it.
C31_Witness ==
    /\ last.op = "save_ai_message"
    /\ ret = PyBool(TRUE)
    /\ now > 0
    /\ Len(JsonLoads(kv[SessionKey(last.pid, last.sid)]).messages) > 1
    /\ JsonLoads(kv[SessionKey(last.pid, last.sid)]).createdAt < now


\* C32: whenever no Context Store call is in flight, every project-metadata key
\* that exists has no expiry, and every schema key, session key and intents-list
\* key that exists has one.
C32_PerKindExpiry ==
    /\ \A p \in Pids :
           /\ MetadataKey(p) \in DOMAIN kv => MetadataKey(p) \notin DOMAIN exp
           /\ SchemaKey(p) \in DOMAIN kv => SchemaKey(p) \in DOMAIN exp
           /\ IntentsKey(p) \in DOMAIN kv => IntentsKey(p) \in DOMAIN exp
    /\ \A k \in SessionKeys : k \in DOMAIN kv => k \in DOMAIN exp


(***************************************************************************)
(* Specification SpecIntentPaths: intents reach the store through the      *)
(* recorder and through the intents POST route, with caller-built payloads *)
(***************************************************************************)
PathExecutions ==
    { <<"SELECT * FROM orders", TRUE, Null>>,
      <<"SELECT * FROM orders", TRUE, Some("warning: slow")>>,
      <<"SELECT * FROM nowhere", FALSE, Some("engine error")>> }

BuiltPayloads ==
    { [sqlQuery |-> "SELECT 1", wasSuccessful |-> TRUE, errorMessage |-> Null],
      [sqlQuery |-> "SELECT 1", wasSuccessful |-> FALSE, errorMessage |-> Some("engine error")],
      [sqlQuery |-> "SELECT 1", wasSuccessful |-> TRUE, errorMessage |-> Some("engine error")] }

RecordPathOutcome ==
    /\ nextId < MaxIntents
    /\ \E execution \in PathExecutions, fuel \in Fuels(6) : Record(ThePid, execution, fuel)

PostBuiltIntent ==
    /\ nextId < MaxIntents
    /\ \E payload \in BuiltPayloads, fuel \in Fuels(6) : PostIntent(ThePid, payload, fuel)

NextIntentPaths ==
    \/ RecordPathOutcome
    \/ PostBuiltIntent
    \/ GetQueryIntents
    \/ Acknowledge
    \/ BackendUp

SpecIntentPaths == InitUp /\ [][NextIntentPaths]_vars

\* the record says the statement succeeded and carries an error message
SuccessWithError(intent) ==
    /\ "wasSuccessful" \in DOMAIN intent
    /\ intent["wasSuccessful"] = TRUE
    /\ "errorMessage" \in DOMAIN intent
    /\ intent["errorMessage"] # Null

\* C33: no record of any stored intents list has a true success flag together
\* with an error message, whether the recorder or the intents POST route wrote it.
C33_ErrorOnlyOnFailure ==
    \A p \in Pids :
        \A i \in 1..Len(StoredIntents(p)) : ~SuccessWithError(StoredIntents(p)[i])


(***************************************************************************)
(* Specification SpecRecordFrame: outcomes are recorded for one project    *)
(* while both projects have schemas, sessions and intents                  *)
(***************************************************************************)
OtherPid == CHOOSE p \in Pids : p # ThePid

\* a schema is cached for a project that has none
CacheAnySchema ==
    /\ Idle
    /\ \E p \in Pids, schema \in Schemas :
           /\ SchemaKey(p) \notin DOMAIN kv
           /\ CacheSchema(p, schema, SCHEMA_TTL, NoFailure)

\* the other project gets its session
AppendOtherMessage ==
    /\ SessionKey(OtherPid, TheSid) \notin DOMAIN kv
    /\ AppendMessage(OtherPid, TheSid, NoFailure)

\* the other project gets its intents list, before any outcome is recorded
StoreOtherIntent ==
    /\ nextId = 0
    /\ StoreIntent(OtherPid, NoFailure)

RecordAnyOutcome ==
    /\ nextId < MaxIntents
    /\ \E execution \in Executions, fuel \in Fuels(8) : Record(ThePid, execution, fuel)

\* half a schema lifetime passes, once
HalfSchemaLifePasses ==
    /\ ticks = 0
    /\ Passes(SCHEMA_TTL \div 2)

NextRecordFrame ==
    \/ CacheAnySchema
    \/ AppendOtherMessage
    \/ StoreOtherIntent
    \/ RecordAnyOutcome
    \/ HalfSchemaLifePasses
    \/ Acknowledge

SpecRecordFrame == InitUp /\ [][NextRecordFrame]_vars

\* key k has the same value and the same deadline (or is absent) in both stores
SameEntry(k, kv1, exp1, kv2, exp2) ==
    /\ (k \in DOMAIN kv1) = (k \in DOMAIN kv2)
    /\ k \in DOMAIN kv1 => kv1[k] = kv2[k]
    /\ (k \in DOMAIN exp1) = (k \in DOMAIN exp2)
    /\ k \in DOMAIN exp1 => exp1[k] = exp2[k]

\* C34: a save_query_intent_helper call for project P leaves P's cached schema,
\* value and deadline, as it was when the statement failed or is not DDL for
\* is_ddl_query, and in every case leaves the schema, the sessions and the
\* intents of every other project as they were.
C34_OnlySuccessfulDdlInvalidates ==
    [][ (Idle /\ last'.op = "save_query_intent_helper")
        => /\ ~(last'.success /\ last'.ddl)
                => SameEntry(SchemaKey(last'.pid), kv, exp, kv', exp')
           /\ \A q \in Pids \ {last'.pid} :
                  /\ SameEntry(SchemaKey(q), kv, exp, kv', exp')
                  /\ SameEntry(IntentsKey(q), kv, exp, kv', exp')
                  /\ \A s \in Sids : SameEntry(SessionKey(q, s), kv, exp, kv', exp')
      ]_vars

\* C34 witness: the outcome of a failed DDL statement was recorded, with the
\* store reachable, for a project whose schema is cached, while the other
\* project has a cached schema, a session and intents.
C34_Witness ==
    /\ last.op = "save_query_intent_helper"
    /\ last.ddl
    /\ ~last.success
    /\ last.inner = PyBool(TRUE)
    /\ last.cached
    /\ SchemaKey(last.pid) \in DOMAIN kv
    /\ \E q \in Pids \ {last.pid} :
           /\ SchemaKey(q) \in DOMAIN kv
           /\ SessionKey(q, TheSid) \in DOMAIN kv
           /\ IntentsKey(q) \in DOMAIN kv



\* C35: delete_project(P) leaves every key of every other project Q (metadata,
\* schema, sessions, intents) as it was, whatever characters the IDs contain.
C35_DeleteTouchesOnlyOwn ==
    [][ (Idle /\ last'.op = "delete_project")
        => \A q \in OpaqueIds \ {last'.pid} :
               \A k \in KeysUnder(kv, q) : SameEntry(k, kv, exp, kv', exp')
      ]_vars



\* C36: update_project_metadata(P, U) creates or changes no metadata record
\* other than P's, also when U has an 'id' field that names another project,
\* and after a successful update the stored record of P has U's fields.
C36_UpdateTouchesOnlyOwn ==
    [][ (Idle /\ last'.op = "update_project_metadata")
        => /\ \A q \in Pids \ {last'.pid} :
                  SameEntry(MetadataKey(q), kv, exp, kv', exp')
           /\ ret' = PyBool(TRUE)
                => /\ MetadataKey(last'.pid) \in DOMAIN kv'
                   /\ \A f \in DOMAIN last'.arg.v \ {"updatedAt"} :
                          /\ f \in DOMAIN StoredProject(kv', last'.pid)
                          /\ StoredProject(kv', last'.pid)[f] = last'.arg.v[f]
      ]_vars



(***************************************************************************)
(* Specification SpecIntentLimit: the intents of one project are read with *)
(* the limits a client can put in ?limit=                                  *)
(***************************************************************************)
\* request.args.get('limit', 50, type=int): any integer the client writes
CallerLimits == {-1, 0, 1, 2, MAX_QUERY_INTENTS}

SaveLimitedIntent ==
    /\ nextId < MaxIntents
    /\ \E fuel \in Fuels(6) : StoreIntent(ThePid, fuel)

GetIntentsWithLimit ==
    /\ Idle
    /\ \E limit \in CallerLimits, fuel \in Fuels(3) : ReadIntents(ThePid, limit, fuel)

NextIntentLimit ==
    \/ SaveLimitedIntent
    \/ GetIntentsWithLimit
    \/ Acknowledge
    \/ BackendUp

SpecIntentLimit == InitUp /\ [][NextIntentLimit]_vars

\* C37: get_query_intents(P, limit) returns at most max(limit, 0) records for
\* every integer limit, and for limit >= 1 a read the store served returns the
\* min(limit, length) most recent intents, the most recent first.
C37_LimitHonoured ==
    last.op = "get_query_intents"
    => /\ Len(ret.v) <= Max(last.limit, 0)
       /\ (last.limit >= 1 /\ ~last.degraded)
            => ret = PyList(SubSeq(StoredIntents(last.pid), 1,
                                   Min(last.limit, Len(StoredIntents(last.pid)))))



(***************************************************************************)
(* Specification SpecRewriteTwice: a statement is rewritten for a project  *)
(* and the rewritten text is submitted again                               *)
(***************************************************************************)
\* the project IDs of the namespacer's inputs and one with a dot in it
ResubmitIds == ProjectIds \cup {"shop.v2"}

ResubmitQueries == CuratedQueries \cup {"ALTER TABLE user_table ADD c INT"}

InitRewriteTwice ==
    /\ nsKind = "rewrite"
    /\ nsPid \in ResubmitIds
    /\ nsQuery \in ResubmitQueries
    /\ nsTable = ""
    /\ nsRewritten = ""
    /\ nsPrefixed = ""
    /\ nsTwice = ""
    /\ nsDisplay = ""
    /\ nsDone = {}
    /\ nsTables = {}
    /\ nsListing = {}
    /\ InitStore
    /\ up

\* rewrite_query_with_prefix applied to its own result; nsTwice holds the text
RewriteAgainStep ==
    /\ nsKind = "rewrite"
    /\ "rewrite" \in nsDone
    /\ "rewrite again" \notin nsDone
    /\ \E order \in IterationOrders(extract_tables_from_query(nsRewritten)) :
          nsTwice' = rewrite_query_with_prefix(nsRewritten, nsPid, order)
    /\ nsDone' = nsDone \cup {"rewrite again"}
    /\ UNCHANGED <<nsKind, nsQuery, nsPid, nsTable, nsRewritten, nsPrefixed, nsDisplay,
                   nsTables, nsListing>>
    /\ UNCHANGED <<adapterVars, storeVars, callVars, historyVars>>

NextRewriteTwice == RewriteStep \/ RewriteAgainStep

SpecRewriteTwice == InitRewriteTwice /\ [][NextRewriteTwice]_vars

\* C38: rewriting an already rewritten statement for the same project gives
\* the rewritten statement back, whatever the statement and the project ID.
C38_RewriteIdempotent ==
    "rewrite again" \in nsDone => nsTwice = nsRewritten



(***************************************************************************)
(* Specification SpecTenants: a project names a table and lists its tables *)
(* while other projects create theirs in the same database                 *)
(***************************************************************************)
TenantIds == {"ab", "ab_c", "deadbeef-0001", "a1b2c3d4-e5f6"}

TenantTables == {"t", "c_t", "orders"}

MaxOtherTables == 1

\* nsTables holds the physical tables of the other projects only
InitTenants ==
    /\ nsKind = "tenants"
    /\ nsPid \in TenantIds
    /\ nsTable \in TenantTables
    /\ nsQuery = ""
    /\ nsRewritten = ""
    /\ nsPrefixed = ""
    /\ nsTwice = ""
    /\ nsDisplay = ""
    /\ nsDone = {}
    /\ nsTables = {}
    /\ nsListing = {}
    /\ InitStore
    /\ up

\* a project with another prefix creates a table
OtherProjectCreates ==
    /\ nsKind = "tenants"
    /\ Cardinality(nsTables) < MaxOtherTables
    /\ \E q \in TenantIds, t \in TenantTables :
          /\ get_table_prefix(q) # get_table_prefix(nsPid)
          /\ nsTables' = nsTables \cup {add_table_prefix(t, q)}
    /\ UNCHANGED <<nsKind, nsQuery, nsPid, nsTable, nsRewritten, nsPrefixed, nsTwice,
                   nsDisplay, nsDone, nsListing>>
    /\ UNCHANGED <<adapterVars, storeVars, callVars, historyVars>>

\* the project's own table gets its physical name
OwnTableNamed ==
    /\ nsKind = "tenants"
    /\ "add" \notin nsDone
    /\ nsPrefixed' = add_table_prefix(nsTable, nsPid)
    /\ nsDone' = nsDone \cup {"add"}
    /\ UNCHANGED <<nsKind, nsQuery, nsPid, nsTable, nsRewritten, nsTwice, nsDisplay, nsTables,
                   nsListing>>
    /\ UNCHANGED <<adapterVars, storeVars, callVars, historyVars>>

\* discover_schema lists the tables of the database for the project
OwnTablesListed ==
    /\ nsKind = "tenants"
    /\ "discover" \notin nsDone
    /\ nsListing' = discover_tables(nsTables, nsPid)
    /\ nsDone' = nsDone \cup {"discover"}
    /\ UNCHANGED <<nsKind, nsQuery, nsPid, nsTable, nsRewritten, nsPrefixed, nsTwice,
                   nsDisplay, nsTables>>
    /\ UNCHANGED <<adapterVars, storeVars, callVars, historyVars>>

NextTenants == OtherProjectCreates \/ OwnTableNamed \/ OwnTablesListed

SpecTenants == InitTenants /\ [][NextTenants]_vars

\* C39: the physical name of a project's table is the physical name of no
\* table of a project with another prefix, and discovery for the project lists
\* no table that a project with another prefix created.
C39_NamesDisjoint ==
    /\ "add" \in nsDone => nsPrefixed \notin nsTables
    /\ "discover" \in nsDone => nsListing = {}

====
